---- MODULE Spec2Model ----
(***************************************************************************)
(* A model of the ingestion layer of RiotRiftRewind:                       *)
(*   - _AsyncTokenBucket, _TTLCache and RiotClient._get                    *)
(*     (src/app/riot_client.py),                                           *)
(*   - patch_tuple, within_patch_range, fetch_matches_for_split and        *)
(*     fetch_matches_since_patch (src/app/services/split_agg.py).          *)
(*                                                                         *)
(* Time is discrete: one tick is 0.5 s, and coroutines run at ticks only.   *)
(* Tokens are counted in units of 0.2 token, so that the refill of one     *)
(* tick (0.80 tokens/s * 0.5 s) is the integer RatePerTick.  The code runs *)
(* on one asyncio event loop, so an action is the code a coroutine runs    *)
(* between two suspension points.  time.time() and time.monotonic() are    *)
(* read from the one clock `now`.                                          *)
(***************************************************************************)
EXTENDS Integers, Sequences, FiniteSets, TLC

\* ------------------------------------------------------------------------
\* Bounds of the model
\* ------------------------------------------------------------------------
NumCallers == 2          \* concurrent tasks: each calls acquire() again and
                         \* again (the bucket alone), or _get once
MaxNow == 3              \* horizon of the clock, in ticks
MaxAcquires == 22        \* acquire() calls started in a run of the bucket alone
NumKeys == 1             \* distinct cache keys
MaxResponses == 3        \* upstream responses delivered in a run
TtlTicks == 1            \* the ttl of a cached key, scaled to the horizon
BatchSize == 2           \* batch_size of the paginators (100 in the code)
MaxBatches == 3          \* max_batches of the paginators (120 and 180)
MaxNewMatches == 1       \* matches played while a paginator runs
GateIds == 9             \* match ids of a batch whose tasks pass a semaphore
MaxVersionLen == 4       \* length of the version strings patch_tuple is tried on
MaxShortSample == 4      \* length of the samples over every queue id
MaxSample == 9           \* length of the samples over solo, normal and custom games
MaxGames == 30           \* matches the player played in a sample given to the champion aggregations
MaxBurst == 3
MaxRankCalls == 2        \* calls of _cached_current_rank
MaxAbsent == 1           \* matches of a scored sample the player is not a participant of
MaxRoleMatches == 4      \* matches of one champion whose positions are recorded

\* ------------------------------------------------------------------------
\* Program constants
\* ------------------------------------------------------------------------
Capacity == 20           \* _GLOBAL_BUCKET capacity, in tokens
One == 5                 \* the 1.0 token of acquire(), in units of 0.2 token
RatePerTick == 2         \* rate_per_sec = 0.80: 0.4 token = 2 units a tick
PollTicks == 1           \* asyncio.sleep(0.2) of acquire() ends by the next tick
SecTicks == 2            \* one second of asyncio.sleep(max(1, retry))
BackoffTicks == 1        \* asyncio.sleep(0.5 * attempts)
MaxAttempts == 3         \* attempts < 3
FilterSlots == 6         \* asyncio.Semaphore(6) of get_matches (_ok)
BriefSlots == 8          \* asyncio.Semaphore(8) of get_matches (_brief)
ListingTtl == 120        \* ttl=120 of rc.match_ids, in seconds

Callers == 1..NumCallers
\* the cache keys of the store: those the callers of _get choose from, and
\* one for each match of a page
Keys == 1..(IF NumKeys >= BatchSize THEN NumKeys ELSE BatchSize)
\* the responses of the upstream API: a status, and what the code reads of
\* the rest (the Retry-After header of a 429, the body of a 2xx)
Responses ==
  {[status |-> 200, header |-> "absent", body |-> b] : b \in {"json", "bad"}}
    \cup {[status |-> 429, header |-> h, body |-> "none"] :
             h \in {"absent", "bad", "0", "1"}}
    \cup {[status |-> st, header |-> "absent", body |-> "none"] :
             st \in {404, 500, 502, 503, 504}}

Min(a, b) == IF a <= b THEN a ELSE b
Max(a, b) == IF a >= b THEN a ELSE b

VARIABLES
  now,        \* the clock (ticks)
  tokens,     \* _GLOBAL_BUCKET.tokens (units)
  updated,    \* _GLOBAL_BUCKET.updated (ticks)
  pc,         \* where each caller is suspended
  wake,       \* the time a sleeping caller's asyncio.sleep ends
  started,    \* acquire() calls started (history)
  returned,   \* acquire() calls that have returned (history)
  cache_m,    \* _CACHE._m: key -> <<expiry, payload>>
  locks,      \* _CACHE._locks: key -> future (0: no entry)
  futs,       \* the futures created by inflight_set, in creation order
  req,        \* the locals of each caller's _get: cache_key, ttl, attempts, fut
  out,        \* what each caller's _get returned or raised
  hist,       \* per call: how it was answered, what it sent and acquired
  nresp,      \* upstream responses delivered (history); the n-th carries n
  pg,         \* the deep paginator: its locals and where it is suspended
  upstream,   \* the player's match history as the upstream API lists it
  pagelog,    \* the pages the paginator has processed (history)
  gate,       \* a batch of match-detail tasks and the semaphore they pass
  calc        \* the latest call of a function checked on its own: its
              \* arguments and what it returned

fetchVars == <<cache_m, locks, futs, req, out, hist, nresp>>
pageVars == <<pg, upstream, pagelog>>
clientVars == <<now, tokens, updated, pc, wake, started, returned, fetchVars>>
auxVars == <<gate, calc>>
vars == <<clientVars, pageVars, auxVars>>

\* ------------------------------------------------------------------------
\* _TTLCache
\* ------------------------------------------------------------------------
None == 0                \* payloads are the responses' numbers, 1 and up
NoEntry == [present |-> FALSE, exp |-> 0, payload |-> None]

\* _TTLCache.get: the value it returns ...
CacheGetValue(k) ==
  IF ~cache_m[k].present THEN None
  ELSE IF now > cache_m[k].exp THEN None
  ELSE cache_m[k].payload

\* ... and the store it leaves (a stale entry is popped)
CacheAfterGetKeep(k) == cache_m
CacheAfterGet(k) ==
  IF cache_m[k].present /\ now > cache_m[k].exp
    THEN [cache_m EXCEPT ![k] = NoEntry]
    ELSE cache_m

\* _TTLCache.put
CachePut(m, k, payload, ttl) ==
  [m EXCEPT ![k] = [present |-> TRUE, exp |-> now + ttl, payload |-> payload]]

\* _TTLCache.inflight_get_or_create: self._locks.get(k)
InflightGetNothing(k) == 0
InflightGet(k) == locks[k]

\* what a call ends with: the parsed body of response `serial`, or the
\* exception raised on it
NoOut == [kind |-> "none", serial |-> 0, err |-> "none", status |-> 0]
OkOut(n) == [kind |-> "ok", serial |-> n, err |-> "none", status |-> 200]
ErrOut(e, st, n) == [kind |-> "err", serial |-> n, err |-> e, status |-> st]

PendingFut == [done |-> FALSE, val |-> NoOut]

\* fut.set_result / fut.set_exception under `if fut and not fut.done()`
ResolveEvery(fs, f, o) ==
  [g \in 1..Len(fs) |-> IF fs[g].done THEN fs[g] ELSE [done |-> TRUE, val |-> o]]
ResolveValue(fs, f, o) ==
  IF f # 0 /\ ~fs[f].done /\ o.kind = "ok"
    THEN [fs EXCEPT ![f] = [done |-> TRUE, val |-> o]]
  ELSE fs
Resolve(fs, f, o) ==
  IF f # 0 /\ ~fs[f].done THEN [fs EXCEPT ![f] = [done |-> TRUE, val |-> o]]
  ELSE fs

\* what the model records about a caller's current call
NoHist ==
  [how |-> "none",       \* "hit", "join" or "lead"
   sent |-> 0,           \* requests this call has sent
   got |-> 0,            \* tokens this call has taken from the bucket
   recv |-> 0,           \* responses this call has received
   n429 |-> 0,           \* ... of them with status 429
   n5xx |-> 0,           \* ... of them with status 502, 503 or 504
   last |-> 0,           \* the status of the latest response
   respAt |-> 0,         \* when it came (while the retry is pending)
   rushed |-> FALSE,     \* a retry went out before its sleep was over
   epoch |-> 0,          \* responses delivered before the call began
                         \* (kept while the call runs)
   old |-> FALSE,        \* the call ended with a response from before it began
   unreg |-> FALSE,      \* the key had no fresh entry and no future
   expired |-> FALSE,    \* the key's entry had expired when the call began
   late |-> FALSE]       \* the call joined a future that was already done

InitFetchVars ==
  /\ cache_m = [k \in Keys |-> NoEntry]
  /\ locks = [k \in Keys |-> 0]
  /\ futs = <<>>
  /\ req = [p \in Callers |-> [key |-> 0, ttl |-> 0, attempts |-> 0, fut |-> 0]]
  /\ out = [p \in Callers |-> NoOut]
  /\ hist = [p \in Callers |-> NoHist]
  /\ nresp = 0


\* the paginator before it is called, and the upstream it has not asked yet
NoPatch == <<>>          \* oldest_this_page = None
IdlePage ==
  [pc |-> "idle", mode |-> "none", lo |-> <<>>, hi |-> <<>>,
   batches |-> 0, start |-> 0, results |-> <<>>, collected |-> <<>>]

\* no batch of tasks, and no function called on its own
IdleGate == [path |-> "none", task |-> <<>>, sem |-> 0]
NoCalc == [op |-> "none"]
InitAuxVars ==
  /\ gate = IdleGate
  /\ calc = NoCalc

InitPageVars ==
  /\ pg = IdlePage
  /\ upstream = [total |-> 0, newer |-> 0]
  /\ pagelog = <<>>
  /\ InitAuxVars

\* ------------------------------------------------------------------------
\* _AsyncTokenBucket
\* ------------------------------------------------------------------------
\* self.tokens = min(self.capacity, self.tokens + elapsed * self.rate)
RefillUncapped(t, elapsed) == t + elapsed * RatePerTick
RefillStopped(t, elapsed) == t
Refill(t, elapsed) == Min(Capacity * One, t + elapsed * RatePerTick)

\* self.tokens -= 1.0
SpendNothing(t) == t
Spend(t) == t - One

\* The body of `async with self.lock` in acquire(): no await inside it, and
\* the lock is free whenever a coroutine reaches it, so it is one step.
Refilled == Refill(tokens, now - updated)
Granted == Refilled >= One
BucketStep ==
  /\ updated' = now
  /\ tokens' = IF Granted THEN Spend(Refilled) ELSE Refilled

\* ------------------------------------------------------------------------
\* The token bucket alone: callers that call acquire() directly
\* ------------------------------------------------------------------------
\* acquire(), from the call to its first suspension point or its return
AcquireCall(p) ==
  /\ pc[p] = "idle"
  /\ started < MaxAcquires
  /\ started' = started + 1
  /\ BucketStep
  /\ IF Granted
       THEN /\ returned' = returned + 1
            /\ UNCHANGED <<pc, wake>>
       ELSE /\ pc' = [pc EXCEPT ![p] = "bucket_sleep"]
            /\ wake' = [wake EXCEPT ![p] = now + PollTicks]
            /\ UNCHANGED returned
  /\ UNCHANGED <<now, fetchVars, pageVars, auxVars>>

\* acquire(), from the end of asyncio.sleep(0.2) round the loop again
AcquirePoll(p) ==
  /\ pc[p] = "bucket_sleep"
  /\ now >= wake[p]
  /\ BucketStep
  /\ IF Granted
       THEN /\ returned' = returned + 1
            /\ pc' = [pc EXCEPT ![p] = "idle"]
            /\ UNCHANGED wake
       ELSE /\ wake' = [wake EXCEPT ![p] = now + PollTicks]
            /\ UNCHANGED <<pc, returned>>
  /\ UNCHANGED <<now, started, fetchVars, pageVars, auxVars>>

\* A coroutine the event loop can resume now: its sleep has ended, or the
\* future it awaits is done.
Ready(p) ==
  \/ pc[p] \in {"bucket_sleep", "sleep_429", "backoff"} /\ now >= wake[p]
  \/ pc[p] = "await_fut" /\ futs[req[p].fut].done

\* time passes: the event loop runs every coroutine that is ready before the
\* clock reaches the next tick
Tick ==
  /\ now < MaxNow
  /\ \A p \in Callers : ~Ready(p)
  /\ now' = now + 1
  /\ UNCHANGED <<tokens, updated, pc, wake, started, returned, fetchVars,
                 pageVars, auxVars>>

InitBucket ==
  /\ now = 0
  /\ tokens = Capacity * One
  /\ updated = 0
  /\ pc = [p \in Callers |-> "idle"]
  /\ wake = [p \in Callers |-> 0]
  /\ started = 0
  /\ returned = 0
  /\ InitFetchVars
  /\ InitPageVars

NextBucket ==
  \/ \E p \in Callers : AcquireCall(p)
  \/ \E p \in Callers : AcquirePoll(p)
  \/ Tick

SpecBucket == InitBucket /\ [][NextBucket]_vars


\* ------------------------------------------------------------------------
\* RiotClient._get
\* ------------------------------------------------------------------------
\* int(r.headers.get("Retry-After", "2")): the header values of the model
\* and what int() makes of them ("bad" raises ValueError)
IntOf == [h \in {"0", "1", "2"} |-> CASE h = "0" -> 0 [] h = "1" -> 1 [] h = "2" -> 2]
RetryHeader(h) == IF h = "absent" THEN "2" ELSE h
ParsesAsInt(h) == RetryHeader(h) \in DOMAIN IntOf
RetryAfter(h) == IntOf[RetryHeader(h)]

\* r.status_code in (502, 503, 504) and attempts < 3
Retry5xxOneMore(status, attempts) ==
  status \in {502, 503, 504} /\ attempts <= MaxAttempts
Retry5xx(status, attempts) ==
  status \in {502, 503, 504} /\ attempts < MaxAttempts

\* r.raise_for_status() returns (httpx: 2xx) instead of raising
IsSuccessBelow500(status) == status < 500
IsSuccess(status) == 200 <= status /\ status < 300

\* the record of a call that ends with o
Ended(h, o) ==
  [h EXCEPT !.old = (o.serial <= h.epoch), !.epoch = 0, !.respAt = 0]

\* the least sleep the retry policy asks for after the n-th response of a
\* call, when all of them were 502, 503 or 504 (0.5 s * attempt number)
Delay(status, n) == IF status \in {502, 503, 504} THEN BackoffTicks * n ELSE 0

\* await _GLOBAL_BUCKET.acquire(), then self._client.get(...) up to the
\* suspension: with a token the request goes out, without one the caller
\* sleeps in acquire().  h is the call's record so far.
SendWithoutAcquire(p, h) ==
  /\ pc' = [pc EXCEPT ![p] = "http"]
  /\ hist' = [hist EXCEPT ![p] =
       [h EXCEPT !.sent = @ + 1, !.respAt = 0,
                 !.rushed = @ \/ now - h.respAt < Delay(h.last, h.recv)]]
  /\ wake' = [wake EXCEPT ![p] = 0]
  /\ UNCHANGED <<tokens, updated, returned>>
AcquireThenSend(p, h) ==
  /\ BucketStep
  /\ IF Granted
       THEN /\ returned' = returned + 1
            /\ pc' = [pc EXCEPT ![p] = "http"]
            /\ hist' = [hist EXCEPT ![p] =
                 [h EXCEPT !.sent = @ + 1,
                           !.got = @ + (Refilled - tokens') \div One,
                           !.respAt = 0,
                           !.rushed = @ \/ now - h.respAt < Delay(h.last, h.recv)]]
            /\ wake' = [wake EXCEPT ![p] = 0]
       ELSE /\ pc' = [pc EXCEPT ![p] = "bucket_sleep"]
            /\ wake' = [wake EXCEPT ![p] = now + PollTicks]
            /\ hist' = [hist EXCEPT ![p] = h]
            /\ UNCHANGED returned

\* _get(url, cache_key=k, ttl=ttl), from the call to its first suspension
\* point or its return
GetCall(p, k, ttl) ==
  /\ pc[p] = "idle"
  /\ \A q \in Callers : q < p => pc[q] # "idle"       \* calls numbered as they start
  /\ \A j \in Keys : j < k => \E q \in Callers : req[q].key = j  \* keys as first used
  /\ cache_m' = CacheAfterGet(k)
  /\ LET hit == CacheGetValue(k)
         inflight == InflightGet(k)
         h == [NoHist EXCEPT
                 !.epoch = nresp,
                 !.unreg = (hit = None /\ locks[k] = 0),
                 !.expired = (cache_m[k].present /\ now > cache_m[k].exp),
                 !.respAt = now]
     IN IF hit # None
          THEN \* return hit
               /\ pc' = [pc EXCEPT ![p] = "done"]
               /\ out' = [out EXCEPT ![p] = OkOut(hit)]
               /\ hist' = [hist EXCEPT ![p] =
                    Ended([h EXCEPT !.how = "hit"], OkOut(hit))]
               /\ req' = [req EXCEPT ![p] =
                    [key |-> k, ttl |-> ttl, attempts |-> 0, fut |-> 0]]
               /\ UNCHANGED <<tokens, updated, returned, wake, locks, futs>>
        ELSE IF inflight # 0
          THEN \* return await inflight
               /\ req' = [req EXCEPT ![p] =
                    [key |-> k, ttl |-> ttl, attempts |-> 0, fut |-> inflight]]
               /\ IF futs[inflight].done
                    THEN /\ pc' = [pc EXCEPT ![p] = "done"]
                         /\ out' = [out EXCEPT ![p] = futs[inflight].val]
                         /\ hist' = [hist EXCEPT ![p] =
                              Ended([h EXCEPT !.how = "join", !.late = TRUE],
                                    futs[inflight].val)]
                    ELSE /\ pc' = [pc EXCEPT ![p] = "await_fut"]
                         /\ out' = [out EXCEPT ![p] = NoOut]
                         /\ hist' = [hist EXCEPT ![p] = [h EXCEPT !.how = "join"]]
               /\ UNCHANGED <<tokens, updated, returned, wake, locks, futs>>
          ELSE \* fut = _CACHE.inflight_set(cache_key); attempts = 1
               /\ futs' = Append(futs, PendingFut)
               /\ locks' = [locks EXCEPT ![k] = Len(futs) + 1]
               /\ req' = [req EXCEPT ![p] =
                    [key |-> k, ttl |-> ttl, attempts |-> 1, fut |-> Len(futs) + 1]]
               /\ out' = [out EXCEPT ![p] = NoOut]
               /\ AcquireThenSend(p, [h EXCEPT !.how = "lead"])
  /\ UNCHANGED <<now, started, nresp, pageVars, auxVars>>

\* acquire() inside _get, from the end of asyncio.sleep(0.2)
GetPoll(p) ==
  /\ pc[p] = "bucket_sleep"
  /\ now >= wake[p]
  /\ AcquireThenSend(p, hist[p])
  /\ UNCHANGED <<now, started, cache_m, locks, futs, req, out, nresp, pageVars, auxVars>>

\* the exception path of _get: except BaseException as e: ...; raise
Raise(p, h, o) ==
  /\ futs' = Resolve(futs, req[p].fut, o)
  /\ out' = [out EXCEPT ![p] = o]
  /\ pc' = [pc EXCEPT ![p] = "done"]
  /\ hist' = [hist EXCEPT ![p] = Ended(h, o)]
  /\ UNCHANGED <<cache_m, wake, req>>

\* the response to the request of caller p arrives: lines 151-164
Respond(p, status, header, body) ==
  /\ pc[p] = "http"
  /\ nresp < MaxResponses
  /\ nresp' = nresp + 1
  /\ LET n == nresp + 1
         r == req[p]
         h == [hist[p] EXCEPT
                 !.recv = @ + 1, !.last = status, !.respAt = now,
                 !.n429 = IF status = 429 THEN @ + 1 ELSE @,
                 !.n5xx = IF status \in {502, 503, 504} THEN @ + 1 ELSE @]
     IN /\ IF status = 429
             THEN IF ParsesAsInt(header)
                    THEN /\ pc' = [pc EXCEPT ![p] = "sleep_429"]
                         /\ wake' = [wake EXCEPT ![p] =
                              now + SecTicks * Max(1, RetryAfter(header))]
                         /\ hist' = [hist EXCEPT ![p] = h]
                         /\ UNCHANGED <<cache_m, futs, out, req>>
                    ELSE Raise(p, h, ErrOut("ValueError", status, n))
           ELSE IF Retry5xx(status, r.attempts)
             THEN /\ pc' = [pc EXCEPT ![p] = "backoff"]
                  /\ wake' = [wake EXCEPT ![p] = now + BackoffTicks * r.attempts]
                  /\ hist' = [hist EXCEPT ![p] = h]
                  /\ UNCHANGED <<cache_m, futs, out, req>>
           ELSE IF ~IsSuccess(status)
             THEN Raise(p, h, ErrOut("HTTPStatusError", status, n))
           ELSE IF body = "bad"
             THEN Raise(p, h, ErrOut("JSONDecodeError", status, n))
             ELSE /\ cache_m' = IF r.ttl > 0 THEN CachePut(cache_m, r.key, n, r.ttl)
                                ELSE cache_m
                  /\ futs' = Resolve(futs, r.fut, OkOut(n))
                  /\ out' = [out EXCEPT ![p] = OkOut(n)]
                  /\ pc' = [pc EXCEPT ![p] = "done"]
                  /\ hist' = [hist EXCEPT ![p] = Ended(h, OkOut(n))]
                  /\ UNCHANGED <<wake, req>>
  /\ UNCHANGED <<now, tokens, updated, started, returned, locks, pageVars, auxVars>>

\* `continue` after the sleep of a 429 or a 5xx: attempts += 1, acquire, get
GetRetry(p) ==
  /\ pc[p] \in {"sleep_429", "backoff"}
  /\ now >= wake[p]
  /\ req' = [req EXCEPT ![p].attempts = @ + 1]
  /\ AcquireThenSend(p, hist[p])
  /\ UNCHANGED <<now, started, cache_m, locks, futs, out, nresp, pageVars, auxVars>>

\* `return await inflight` resumes once the future is done
GetJoined(p) ==
  /\ pc[p] = "await_fut"
  /\ futs[req[p].fut].done
  /\ out' = [out EXCEPT ![p] = futs[req[p].fut].val]
  /\ pc' = [pc EXCEPT ![p] = "done"]
  /\ hist' = [hist EXCEPT ![p] = Ended(@, futs[req[p].fut].val)]
  /\ UNCHANGED <<now, tokens, updated, wake, started, returned,
                 cache_m, locks, futs, req, nresp, pageVars, auxVars>>

\* the bucket as earlier traffic may have left it: full, or down to one token
InitFetch ==
  /\ now = 0
  /\ tokens \in {Capacity * One, One}
  /\ updated = 0
  /\ pc = [p \in Callers |-> "idle"]
  /\ wake = [p \in Callers |-> 0]
  /\ started = 0
  /\ returned = 0
  /\ InitFetchVars
  /\ InitPageVars

NextFetch ==
  \/ \E p \in Callers, k \in 1..NumKeys : GetCall(p, k, TtlTicks)
  \/ \E p \in Callers : GetPoll(p)
  \/ \E p \in Callers, r \in Responses : Respond(p, r.status, r.header, r.body)
  \/ \E p \in Callers : GetRetry(p)
  \/ \E p \in Callers : GetJoined(p)
  \/ Tick

SpecFetch == InitFetch /\ [][NextFetch]_vars

\* ------------------------------------------------------------------------
\* split_agg.py: patch_tuple and within_patch_range
\* ------------------------------------------------------------------------
\* A version string is the sequence of its characters.
Digits == <<"0", "1", "2", "3", "4", "5", "6", "7", "8", "9">>
IsDigit(c) == \E i \in 1..Len(Digits) : Digits[i] = c
DigitValue(c) == (CHOOSE i \in 1..Len(Digits) : Digits[i] = c) - 1

\* the length of the run of digits a string begins with
RECURSIVE RunLength(_)
RunLength(s) ==
  IF s = <<>> \/ ~IsDigit(Head(s)) THEN 0 ELSE 1 + RunLength(Tail(s))

\* int() of a string of digits
RECURSIVE ParseInt(_, _)
ParseInt(s, acc) ==
  IF s = <<>> THEN acc ELSE ParseInt(Tail(s), 10 * acc + DigitValue(Head(s)))

\* re.findall(r"\d+", s), each match through int()
RECURSIVE FindAllInts(_)
FindAllInts(s) ==
  IF s = <<>> THEN <<>>
  ELSE IF ~IsDigit(Head(s)) THEN FindAllInts(Tail(s))
  ELSE LET n == RunLength(s)
       IN <<ParseInt(SubSeq(s, 1, n), 0)>> \o FindAllInts(SubSeq(s, n + 1, Len(s)))

\* the body of patch_tuple
ParsePatchLoose(game_version) ==
  LET nums == FindAllInts(game_version)
  IN IF Len(nums) >= 1
       THEN <<nums[1], IF Len(nums) >= 2 THEN nums[2] ELSE 0>>
       ELSE <<0, 0>>
ParsePatch(game_version) ==
  LET nums == FindAllInts(game_version)
  IN IF Len(nums) >= 2 THEN <<nums[1], nums[2]>> ELSE <<0, 0>>

\* config.SPLITS
SPLITS ==
  [s \in {"s1", "s2", "s3"} |->
     CASE s = "s1" -> <<(<<"1", "5", ".", "1">>), (<<"1", "5", ".", "4">>)>>
       [] s = "s2" -> <<(<<"1", "5", ".", "5">>), (<<"1", "5", ".", "1", "6">>)>>
       [] s = "s3" -> <<(<<"1", "5", ".", "1", "7">>), (<<"1", "5", ".", "2", "4">>)>>]

\* info.gameVersion of the matches the player had played when the paginator
\* was called, newest first; a match's id is its place in this list.  One
\* match has no gameVersion, one has a version with a single number.
Timeline ==
  << <<"1", "5", ".", "1", "6", ".", "1">>,
     <<"1", "5", ".", "6", ".", "2">>,
     <<"1", "5", ".", "5", ".", "1">>,
     <<"1", "5", ".", "3", ".", "9">>,
     <<>>,
     <<"1", "4", ".", "2", "4", ".", "1">>,
     <<"v", "1", "5">> >>

\* the matches played since (ids 0, -1, ...) are on the newest patch
NewestVersion == <<"1", "5", ".", "1", "7", ".", "1">>

\* the version strings of the player's history and of the configured splits,
\* each with what patch_tuple makes of it (computed once)
KnownVersions ==
  {Timeline[i] : i \in 1..Len(Timeline)} \cup {NewestVersion, <<>>}
    \cup UNION {{SPLITS[s][1], SPLITS[s][2]} : s \in DOMAIN SPLITS}
ParsedVersions == [v \in KnownVersions |-> ParsePatch(v)]

patch_tuple(game_version) ==
  IF game_version \in KnownVersions THEN ParsedVersions[game_version]
  ELSE ParsePatch(game_version)

\* Python's order on pairs of integers
TupleLess(a, b) == a[1] < b[1] \/ (a[1] = b[1] /\ a[2] < b[2])
TupleLeq(a, b) == a = b \/ TupleLess(a, b)

within_lower_bound(game_version, lo, hi) ==
  TupleLeq(patch_tuple(lo), patch_tuple(game_version))
within_patch_range(game_version, lo, hi) ==
  LET g == patch_tuple(game_version)
      L == patch_tuple(lo)
      H == patch_tuple(hi)
  IN TupleLeq(L, g) /\ TupleLeq(g, H)

\* ------------------------------------------------------------------------
\* The upstream match history of the player
\* ------------------------------------------------------------------------
VersionOf(mid) == IF mid >= 1 THEN Timeline[mid] ELSE NewestVersion

\* the arguments the paginators are called with
SplitNames == DOMAIN SPLITS \cup {"s4"}
LoPatches == {SPLITS["s1"][1], SPLITS["s2"][1], <<>>}
\* how many of the Timeline's matches the player has
Totals == {3, Len(Timeline)}

\* rc.match_ids(region, puuid, start=start, count=count): the ids at places
\* start+1 .. start+count of the history as it is now
Listing(start, count) ==
  LET left == upstream.total + upstream.newer - start
      n == Min(count, Max(0, left))
  IN [j \in 1..n |-> start + j - upstream.newer]

\* ------------------------------------------------------------------------
\* fetch_matches_for_split and fetch_matches_since_patch
\* ------------------------------------------------------------------------
\* the test under which a fetched match is collected
Keep(mode, gv, lo, hi) ==
  IF mode = "split" THEN within_patch_range(gv, lo, hi)
  ELSE TupleLeq(patch_tuple(lo), patch_tuple(gv))

\* the loop over results: oldest_this_page
RECURSIVE OldestThisPage(_, _)
OldestThisPage(rs, oldest) ==
  IF rs = <<>> THEN oldest
  ELSE LET m == Head(rs)
           g_t == patch_tuple(VersionOf(m.id))
       IN OldestThisPage(Tail(rs),
            IF /\ m.ok
               /\ g_t # <<0, 0>>
               /\ (oldest = NoPatch \/ TupleLess(g_t, oldest))
              THEN g_t ELSE oldest)

\* if oldest_this_page and oldest_this_page < lo_t: break
StopAtLowerBound(oldest, lo_t) == oldest # NoPatch /\ TupleLeq(oldest, lo_t)
BelowLowerBound(oldest, lo_t) == oldest # NoPatch /\ TupleLess(oldest, lo_t)

\* the next turn of `for _ in range(max_batches)`: the listing request goes
\* out, or the loop is over and the paginator returns
NextBatchUnbounded(g) == [g EXCEPT !.batches = @ + 1, !.pc = "listing"]
NextBatch(g) ==
  IF g.batches < MaxBatches
    THEN [g EXCEPT !.batches = @ + 1, !.pc = "listing"]
    ELSE [g EXCEPT !.pc = "done"]

\* fetch_matches_for_split(region, puuid, split), up to its first listing
PageCallSplit(split) ==
  /\ pg.pc = "idle"
  /\ pg' = IF split \notin DOMAIN SPLITS
             THEN [pg EXCEPT !.pc = "done", !.mode = "split"]
             ELSE NextBatch([pg EXCEPT !.mode = "split",
                                       !.lo = SPLITS[split][1],
                                       !.hi = SPLITS[split][2]])
  /\ UNCHANGED <<clientVars, auxVars, upstream, pagelog>>

\* fetch_matches_since_patch(region, puuid, lo_patch), up to its first listing
PageCallSince(lo_patch) ==
  /\ pg.pc = "idle"
  /\ pg' = NextBatch([pg EXCEPT !.mode = "since", !.lo = lo_patch])
  /\ UNCHANGED <<clientVars, auxVars, upstream, pagelog>>

\* rc.match_ids returns: an empty page ends the loop, any other starts the
\* gather of its match details
ListReturn ==
  /\ pg.pc = "listing"
  /\ LET ids == Listing(pg.start, BatchSize)
     IN IF ids = <<>>
          THEN /\ pg' = [pg EXCEPT !.pc = "done"]
               /\ pagelog' = Append(pagelog, [results |-> <<>>])
          ELSE /\ pg' = [pg EXCEPT !.pc = "gather",
                           !.results = [i \in 1..Len(ids) |->
                              [id |-> ids[i], done |-> FALSE, ok |-> FALSE]]]
               /\ UNCHANGED pagelog
  /\ UNCHANGED <<clientVars, auxVars, upstream>>

\* rc.match_ids raises: the paginator does not catch it
ListRaise ==
  /\ pg.pc = "listing"
  /\ pg' = [pg EXCEPT !.pc = "raised"]
  /\ UNCHANGED <<clientVars, auxVars, upstream, pagelog>>

\* one rc.match of the gather returns the match ...
DetailReturn(i) ==
  /\ pg.pc = "gather"
  /\ i \in 1..Len(pg.results)
  /\ ~pg.results[i].done
  /\ pg' = [pg EXCEPT !.results[i].done = TRUE, !.results[i].ok = TRUE]
  /\ UNCHANGED <<clientVars, auxVars, upstream, pagelog>>

\* ... or raises (return_exceptions=True keeps the exception as its result)
DetailRaise(i) ==
  /\ pg.pc = "gather"
  /\ i \in 1..Len(pg.results)
  /\ ~pg.results[i].done
  /\ pg' = [pg EXCEPT !.results[i].done = TRUE]
  /\ UNCHANGED <<clientVars, auxVars, upstream, pagelog>>

GatherFirstDone(results) == \E i \in 1..Len(results) : results[i].done
\* await asyncio.gather(...) returns: every rc.match has returned or raised
GatherComplete(results) == \A i \in 1..Len(results) : results[i].done

\* the gather is complete: the loop over results, the stop rule, and the next
\* turn of the loop up to its listing request
PageDone ==
  /\ pg.pc = "gather"
  /\ GatherComplete(pg.results)
  /\ LET kept == SelectSeq(pg.results,
                   LAMBDA m : m.ok /\ Keep(pg.mode, VersionOf(m.id), pg.lo, pg.hi))
         oldest_this_page == OldestThisPage(pg.results, NoPatch)
         g == [pg EXCEPT !.collected = @ \o [i \in 1..Len(kept) |-> kept[i].id],
                         !.results = <<>>]
     IN pg' = IF BelowLowerBound(oldest_this_page, patch_tuple(pg.lo))
                THEN [g EXCEPT !.pc = "done"]
                ELSE NextBatch([g EXCEPT !.start = @ + BatchSize])
  /\ pagelog' = Append(pagelog, [results |-> pg.results])
  /\ UNCHANGED <<clientVars, auxVars, upstream>>

\* the player finishes another match while the paginator runs: the listing
\* shifts by one
NewMatch ==
  /\ pg.pc \in {"listing", "gather"}
  /\ upstream.newer < MaxNewMatches
  /\ upstream' = [upstream EXCEPT !.newer = @ + 1]
  /\ UNCHANGED <<clientVars, auxVars, pg, pagelog>>

InitPage ==
  /\ now = 0
  /\ tokens = Capacity * One
  /\ updated = 0
  /\ pc = [p \in Callers |-> "idle"]
  /\ wake = [p \in Callers |-> 0]
  /\ started = 0
  /\ returned = 0
  /\ InitFetchVars
  /\ pg = IdlePage
  /\ upstream \in {[total |-> t, newer |-> 0] : t \in Totals}
  /\ pagelog = <<>>
  /\ InitAuxVars

NextPage ==
  \/ \E split \in SplitNames : PageCallSplit(split)
  \/ \E lo_patch \in LoPatches : PageCallSince(lo_patch)
  \/ ListReturn
  \/ ListRaise
  \/ \E i \in 1..BatchSize : DetailReturn(i)
  \/ \E i \in 1..BatchSize : DetailRaise(i)
  \/ PageDone
  \/ NewMatch

SpecPage == InitPage /\ [][NextPage]_vars

\* every fetch the paginator awaits completes: rc.match_ids returns or
\* raises, each rc.match of a gather returns or raises, and the event loop
\* resumes the paginator when its gather is complete
PageFairness ==
  /\ WF_vars(ListReturn \/ ListRaise)
  /\ WF_vars(\E i \in 1..BatchSize : DetailReturn(i) \/ DetailRaise(i))
  /\ WF_vars(PageDone)

SpecPageFair == SpecPage /\ PageFairness

\* ------------------------------------------------------------------------
\* One gather of the paginator, its rc.match calls running through _get
\* ------------------------------------------------------------------------
\* what upstream answers a match-detail request with, here: the match, a
\* body that is no JSON, or a status that is not retried
BatchResponses ==
  {r \in Responses : r.status \in {200, 404, 500}}

\* the first page only: its tasks are the callers
BatchListReturn ==
  /\ pg.batches = 1
  /\ ListReturn

\* asyncio.gather starts rc.match(region, mid) for the p-th id of the page:
\* _get with the match's cache key
BatchFetch(p) ==
  /\ pg.pc = "gather"
  /\ p \in 1..Len(pg.results)
  /\ GetCall(p, pg.results[p].id, TtlTicks)

\* the p-th task is over: gather keeps what it returned, or the exception
\* (return_exceptions=True)
BatchDetail(p) ==
  /\ pg.pc = "gather"
  /\ p \in 1..Len(pg.results)
  /\ ~pg.results[p].done
  /\ pc[p] = "done"
  /\ pg' = [pg EXCEPT !.results[p].done = TRUE,
                      !.results[p].ok = (out[p].kind = "ok")]
  /\ UNCHANGED <<clientVars, auxVars, upstream, pagelog>>

InitBatch ==
  /\ now = 0
  /\ tokens = Capacity * One
  /\ updated = 0
  /\ pc = [p \in Callers |-> "idle"]
  /\ wake = [p \in Callers |-> 0]
  /\ started = 0
  /\ returned = 0
  /\ InitFetchVars
  /\ pg = IdlePage
  /\ upstream = [total |-> Len(Timeline), newer |-> 0]
  /\ pagelog = <<>>
  /\ InitAuxVars

NextBatchStep ==
  \/ \E split \in SplitNames : PageCallSplit(split)
  \/ \E lo_patch \in LoPatches : PageCallSince(lo_patch)
  \/ BatchListReturn
  \/ \E p \in Callers : BatchFetch(p)
  \/ \E p \in Callers, r \in BatchResponses : Respond(p, r.status, r.header, r.body)
  \/ \E p \in Callers : BatchDetail(p)
  \/ PageDone

SpecBatch == InitBatch /\ [][NextBatchStep]_vars

\* ------------------------------------------------------------------------
\* A batch of match-detail tasks: asyncio.gather over the ids of a page
\* ------------------------------------------------------------------------
\* The three places that gather rc.match calls: the paginators of
\* split_agg.py (no semaphore), and _ok and _brief of get_matches (each
\* task inside `async with sem`).
GatePaths == {"paginator", "filter", "brief"}
Slots(path) == IF path = "filter" THEN FilterSlots ELSE BriefSlots
Gated(path) == path # "paginator"

\* asyncio.gather(*[... for mid in ids]) creates a task for each of n ids
GateStart(path, n) ==
  /\ gate.path = "none"
  /\ gate' = [path |-> path, task |-> [i \in 1..n |-> "new"],
              sem |-> IF Gated(path) THEN Slots(path) ELSE 0]
  /\ UNCHANGED <<clientVars, pageVars, calc>>

\* the i-th task runs up to its first suspension: inside rc.match, or
\* waiting in sem.acquire()
TaskBegin(i) ==
  /\ i \in 1..Len(gate.task)
  /\ gate.task[i] = "new"
  /\ \A j \in 1..(i - 1) : gate.task[j] # "new"
  /\ gate' = IF ~Gated(gate.path)
               THEN [gate EXCEPT !.task[i] = "running"]
             ELSE IF gate.sem > 0
               THEN [gate EXCEPT !.task[i] = "running", !.sem = @ - 1]
               ELSE [gate EXCEPT !.task[i] = "waiting"]
  /\ UNCHANGED <<clientVars, pageVars, calc>>

\* sem.acquire() of a waiting task returns once a slot is free
TaskWake(i) ==
  /\ i \in 1..Len(gate.task)
  /\ gate.task[i] = "waiting"
  /\ gate.sem > 0
  /\ gate' = [gate EXCEPT !.task[i] = "running", !.sem = @ - 1]
  /\ UNCHANGED <<clientVars, pageVars, calc>>

\* rc.match of the i-th task returns or raises; `async with sem` releases
TaskEnd(i) ==
  /\ i \in 1..Len(gate.task)
  /\ gate.task[i] = "running"
  /\ gate' = [gate EXCEPT !.task[i] = "done",
                          !.sem = IF Gated(gate.path) THEN @ + 1 ELSE @]
  /\ UNCHANGED <<clientVars, pageVars, calc>>

InitGate ==
  /\ now = 0
  /\ tokens = Capacity * One
  /\ updated = 0
  /\ pc = [p \in Callers |-> "idle"]
  /\ wake = [p \in Callers |-> 0]
  /\ started = 0
  /\ returned = 0
  /\ InitFetchVars
  /\ InitPageVars

NextGate ==
  \/ \E path \in GatePaths : GateStart(path, GateIds)
  \/ \E i \in 1..GateIds : TaskBegin(i)
  \/ \E i \in 1..GateIds : TaskWake(i)
  \/ \E i \in 1..GateIds : TaskEnd(i)

SpecGate == InitGate /\ [][NextGate]_vars

\* ------------------------------------------------------------------------
\* _TTLCache alone: put and get at chosen times (the clock in seconds)
\* ------------------------------------------------------------------------
CacheValues == {1, 2}
\* the clock moves to just before an expiry, to it, or just past it
CacheSteps == {ListingTtl - 1, ListingTtl, ListingTtl + 1}
MaxCacheNow == ListingTtl + 1

\* what the model remembers of the latest put of each key, and whether a
\* get since has returned its value
NoPut == [made |-> FALSE, at |-> 0, v |-> None, ttl |-> 0, read |-> FALSE]
NoCacheCall ==
  [op |-> "none", k |-> 0, val |-> None, kept |-> TRUE, others |-> TRUE]

\* _CACHE.put(k, v, ttl)
CachePutCall(k, v, ttl) ==
  /\ cache_m' = CachePut(cache_m, k, v, ttl)
  /\ calc' = [call |-> [NoCacheCall EXCEPT !.op = "put", !.k = k],
              last |-> [calc.last EXCEPT ![k] =
                 [made |-> TRUE, at |-> now, v |-> v, ttl |-> ttl, read |-> FALSE]]]
  /\ UNCHANGED <<now, tokens, updated, pc, wake, started, returned,
                 locks, futs, req, out, hist, nresp, pageVars, gate>>

\* _CACHE.get(k): the call is recorded with what it returned, whether it
\* left the entry of k as it was, and whether it left every other entry
CacheGetCall(k) ==
  /\ cache_m' = CacheAfterGet(k)
  /\ calc' = [call |-> [op |-> "get", k |-> k, val |-> CacheGetValue(k),
                        kept |-> (cache_m'[k] = cache_m[k]),
                        others |-> \A j \in Keys : j # k => cache_m'[j] = cache_m[j]],
              last |-> [calc.last EXCEPT ![k].read = @ \/ CacheGetValue(k) # None]]
  /\ UNCHANGED <<now, tokens, updated, pc, wake, started, returned,
                 locks, futs, req, out, hist, nresp, pageVars, gate>>

\* time.time() moves on
Elapse(d) ==
  /\ now + d <= MaxCacheNow
  /\ now' = now + d
  /\ calc' = [calc EXCEPT !.call = NoCacheCall]
  /\ UNCHANGED <<tokens, updated, pc, wake, started, returned, fetchVars,
                 pageVars, gate>>

InitCache ==
  /\ now = 0
  /\ tokens = Capacity * One
  /\ updated = 0
  /\ pc = [p \in Callers |-> "idle"]
  /\ wake = [p \in Callers |-> 0]
  /\ started = 0
  /\ returned = 0
  /\ InitFetchVars
  /\ pg = IdlePage
  /\ upstream = [total |-> 0, newer |-> 0]
  /\ pagelog = <<>>
  /\ gate = IdleGate
  /\ calc = [call |-> NoCacheCall, last |-> [k \in Keys |-> NoPut]]

NextCache ==
  \/ \E k \in Keys, v \in CacheValues : CachePutCall(k, v, ListingTtl)
  \/ \E k \in Keys : CacheGetCall(k)
  \/ \E d \in CacheSteps : Elapse(d)

SpecCache == InitCache /\ [][NextCache]_vars

\* ------------------------------------------------------------------------
\* patch_tuple and within_patch_range alone
\* ------------------------------------------------------------------------
\* the strings they are called with: every string of at most MaxVersionLen
\* characters over two digits, the dot and a letter, and two longer ones
VersionAlphabet == {"1", "2", ".", "x"}
LongVersion == <<"1", "5", ".", "4", ".", "5", "1", "2", ".", "9", "9">>
Garbage == <<"g", "a", "r", "b", "a", "g", "e">>
VersionStrings ==
  UNION {[1..n -> VersionAlphabet] : n \in 0..MaxVersionLen}
    \cup {LongVersion, Garbage}
WindowBounds ==
  {<<>>, <<"1", ".", "2">>, <<"2", ".", "1">>, <<"1", ".", "1", "2">>}

\* nothing of the client, the paginators or the routes is running
IdleProgram ==
  /\ now = 0
  /\ tokens = Capacity * One
  /\ updated = 0
  /\ pc = [p \in Callers |-> "idle"]
  /\ wake = [p \in Callers |-> 0]
  /\ started = 0
  /\ returned = 0
  /\ InitFetchVars
  /\ pg = IdlePage
  /\ upstream = [total |-> 0, newer |-> 0]
  /\ pagelog = <<>>
  /\ gate = IdleGate

\* the arguments of one call
InitPatch ==
  /\ IdleProgram
  /\ \E v \in VersionStrings, lo \in WindowBounds, hi \in WindowBounds :
       calc = [op |-> "args", v |-> v, lo |-> lo, hi |-> hi]

\* patch_tuple(v) and within_patch_range(v, lo, hi) are called
PatchCall ==
  /\ calc.op = "args"
  /\ calc' = [op |-> "patch", v |-> calc.v, lo |-> calc.lo, hi |-> calc.hi,
              g |-> patch_tuple(calc.v),
              L |-> patch_tuple(calc.lo), H |-> patch_tuple(calc.hi),
              within |-> within_patch_range(calc.v, calc.lo, calc.hi)]
  /\ UNCHANGED <<clientVars, pageVars, gate>>

NextPatch == PatchCall

SpecPatch == InitPatch /\ [][NextPatch]_vars

\* ------------------------------------------------------------------------
\* classify_primary_mode
\* ------------------------------------------------------------------------
NoBucket == "none"       \* QUEUE_BUCKET.get(qid) is None
Buckets == {"solo", "flex", "normal", "aram", "clash"}
QUEUE_BUCKET(qid) ==
  CASE qid = 420 -> "solo"
    [] qid = 440 -> "flex"
    [] qid = 400 -> "normal"
    [] qid = 430 -> "normal"
    [] qid = 450 -> "aram"
    [] qid = 700 -> "clash"
    [] OTHER -> NoBucket

\* exp(-i / 20.0) for i = 0, 1, ... in millionths, rounded to the nearest
WeightScale == 1000000
ExpWeights ==
  <<1000000, 951229, 904837, 860708, 818731, 778801,
    740818, 704688, 670320, 637628, 606531, 576950>>
WeightFlat(i) == ExpWeights[1]
Weight(i) == ExpWeights[i + 1]

\* weighted[b] and base[b] after the loop over matches[from..], index i = from - 1
RECURSIVE WeightedFrom(_, _, _)
WeightedFrom(matches, b, from) ==
  IF from > Len(matches) THEN 0
  ELSE (IF QUEUE_BUCKET(matches[from]) = b THEN Weight(from - 1) ELSE 0)
         + WeightedFrom(matches, b, from + 1)
RECURSIVE BaseFrom(_, _, _)
BaseFrom(matches, b, from) ==
  IF from > Len(matches) THEN 0
  ELSE (IF QUEUE_BUCKET(matches[from]) = b THEN 1 ELSE 0)
         + BaseFrom(matches, b, from + 1)
\* the place a bucket was first counted at: the order of the Counter's keys
FirstCounted(matches, b) ==
  CHOOSE i \in 1..Len(matches) :
    /\ QUEUE_BUCKET(matches[i]) = b
    /\ \A j \in 1..(i - 1) : QUEUE_BUCKET(matches[j]) # b

\* confidence values are fractions <<numerator, denominator>>
Clamp01(f) ==
  IF f[1] < 0 THEN <<0, 1>> ELSE IF f[1] > f[2] THEN <<1, 1>> ELSE f
FracMax(f, g) == IF f[1] * g[2] >= g[1] * f[2] THEN f ELSE g
\* round(confidence, 2), in hundredths
Round2(f) ==
  LET q == (100 * f[1]) \div f[2]
      r == (100 * f[1]) % f[2]
  IN IF 2 * r >= f[2] THEN q + 1 ELSE q

OverrideNever(base) == FALSE
OverrideApplies(base) ==
  LET ranked_games == base["solo"] + base["flex"]
  IN ranked_games < 5 /\ base["normal"] >= 5

Unranked == [primary |-> "unranked", confidence |-> 0, dist |-> <<>>]

classify_primary_mode(matches) ==
  LET weighted == [b \in Buckets |-> WeightedFrom(matches, b, 1)]
      base == [b \in Buckets |-> BaseFrom(matches, b, 1)]
      keys == {b \in Buckets : base[b] > 0}
      Before(a, b) ==
        \/ weighted[a] > weighted[b]
        \/ /\ weighted[a] = weighted[b]
           /\ FirstCounted(matches, a) < FirstCounted(matches, b)
      \* sorted(weighted.items(), key = the weight, reverse = True)
      items == [n \in 1..Cardinality(keys) |->
                  CHOOSE b \in keys :
                    Cardinality({a \in keys : Before(a, b)}) = n - 1]
      top_w == weighted[items[1]]
      second_w == IF Cardinality(keys) > 1 THEN weighted[items[2]] ELSE 0
      total_w == weighted["solo"] + weighted["flex"] + weighted["normal"]
                   + weighted["aram"] + weighted["clash"]
      confidence == Clamp01(<<2 * (top_w - second_w), total_w>>)
      over == OverrideApplies(base)
  IN IF matches = <<>> \/ keys = {}
       THEN Unranked
       ELSE [primary |-> IF over THEN "normal" ELSE items[1],
             confidence |-> Round2(IF over THEN FracMax(confidence, <<6, 10>>)
                                           ELSE confidence),
             dist |-> [b \in keys |-> base[b]]]

\* the samples it is called with, most recent match first, as queue ids;
\* 0 is a custom game, which QUEUE_BUCKET does not map
QueueIds == {420, 440, 400, 430, 450, 700, 0}
LongQueueIds == {420, 400, 0}
Samples ==
  UNION {[1..n -> QueueIds] : n \in 0..MaxShortSample}
    \cup UNION {[1..n -> LongQueueIds] : n \in 0..MaxSample}

InitMode ==
  /\ IdleProgram
  /\ \E matches \in Samples : calc = [op |-> "sample", matches |-> matches]

ModeCall ==
  /\ calc.op = "sample"
  /\ calc' = [op |-> "mode", matches |-> calc.matches,
              res |-> classify_primary_mode(calc.matches)]
  /\ UNCHANGED <<clientVars, pageVars, gate>>

NextMode == ModeCall

SpecMode == InitMode /\ [][NextMode]_vars

\* ------------------------------------------------------------------------
\* aggregate_best_champ and aggregate_champ_table
\* ------------------------------------------------------------------------
\* The matches carry the player's championName and win only; every other
\* statistic is read with its default 0, so kda, cs, kp, vision and damage
\* share contribute 0 to a score.  Scores are in millionths.
MIN_GAMES_FOR_BEST == 15
VOLUME_BONUS_LAMBDA == 25
VOLUME_BONUS_CAP == 500000
Million == 1000000
Champs == {"A", "B"}
NoRow == [name |-> "none", games |-> 0]           \* None
NoAcc == [games |-> 0, wins |-> 0]

\* math.log1p(n) for n = 0..40, in ten-thousandths
Log1p ==
  <<0, 6931, 10986, 13863, 16094, 17918, 19459, 20794, 21972, 23026, 23979,
    24849, 25649, 26391, 27081, 27726, 28332, 28904, 29444, 29957, 30445,
    30910, 31355, 31781, 32189, 32581, 32958, 33322, 33673, 34012, 34340,
    34657, 34965, 35264, 35553, 35835, 36109, 36376, 36636, 36889, 37136>>

\* z = 1.96 and z = 1.2816: z*z in millionths and in hundred-thousandths,
\* z*z/2 and (z*z)*(z*z)/4 in millionths
ZBest == [z2 |-> 3841600, z2d |-> 384160, half |-> 1920800, quart |-> 3689473]
ZTable == [z2 |-> 1642499, z2d |-> 164250, half |-> 821249, quart |-> 674450]

\* the largest r in lo..hi with r * r <= x
RECURSIVE SqrtIn(_, _, _)
SqrtIn(x, lo, hi) ==
  IF lo = hi THEN lo
  ELSE LET mid == (lo + hi + 1) \div 2
       IN IF mid * mid <= x THEN SqrtIn(x, mid, hi) ELSE SqrtIn(x, lo, mid - 1)
\* math.sqrt of x millionths, in millionths: the integer root in thousandths
\* and one Newton step
Sqrt6(x) ==
  LET r == SqrtIn(x, 1, 46340)
  IN r * 1000 + ((x - r * r) * 1000) \div (2 * r)

\* _wilson_lower_bound(wins / n, n, z), with numerator and denominator
\* multiplied by n, in millionths
\*   (wins + z*z/2 - sqrt(z*z * wins * (n - wins) / n + z*z*z*z/4)) / (n + z*z)
_wilson_lower_bound(wins, n, Z) ==
  IF n = 0 THEN 0
  ELSE LET num == wins * Million + Z.half
                    - Sqrt6((Z.z2 * wins * (n - wins)) \div n + Z.quart)
           den == n * 100000 + Z.z2d
           r0 == num % den
           r1 == (r0 * 100) % den
           r2 == (r1 * 100) % den
       IN (num \div den) * 100000 + ((r0 * 100) \div den) * 1000
            + ((r1 * 100) \div den) * 10 + (r2 * 10) \div den

\* VOLUME_BONUS_LAMBDA * min(n / total_games, VOLUME_BONUS_CAP)
VolumeBonus(n, total_games) ==
  IF total_games > 0
    THEN LET share == (n * Million) \div total_games
         IN VOLUME_BONUS_LAMBDA
              * (IF share < VOLUME_BONUS_CAP THEN share ELSE VOLUME_BONUS_CAP)
    ELSE 0

\* the score of a champion in aggregate_best_champ
BestScore(r, total_games) ==
  LET n == r.games
      wr_adj == _wilson_lower_bound(r.wins, n, ZBest)
      \* (log1p(n) / log1p(40)) * min(1.0, n / 20.0), in ten-thousandths
      ratio == (Log1p[n + 1] * 10000) \div Log1p[41]
      stability == IF n < 20 THEN (ratio * n) \div 20 ELSE ratio
  IN (((60 * wr_adj) \div 1000) * stability) \div 10
       + VolumeBonus(n, total_games)

\* round(score, 2) of a champion in aggregate_champ_table, in hundredths
TableScore(r, total_games) ==
  LET n == r.games
      wr_adj == _wilson_lower_bound(r.wins, n, ZTable)
      base == 100 * wr_adj
      score == (IF n < 5 THEN (base \div 5) * n ELSE base)
                 + VolumeBonus(n, total_games)
      q == score \div 10000
      rest == score % 10000
  IN IF rest > 5000 \/ (rest = 5000 /\ q % 2 = 1) THEN q + 1 ELSE q

EligibleAlways(n) == TRUE
\* not (n < MIN_GAMES_FOR_BEST)
Eligible(n) == n >= MIN_GAMES_FOR_BEST

RECURSIVE TotalGames(_, _)
TotalGames(per, keys) ==
  IF keys = <<>> THEN 0 ELSE per[Head(keys)].games + TotalGames(per, Tail(keys))

BetterOrEqual(score, best_score) == score >= best_score
\* if score > best_score
Better(score, best_score) == score > best_score

\* the loop over per.items() from the i-th key on
RECURSIVE BestFrom(_, _, _, _, _)
BestFrom(per, keys, i, best_row, best_score) ==
  IF i > Len(keys) THEN best_row
  ELSE LET champ == keys[i]
           r == per[champ]
           score == BestScore(r, TotalGames(per, keys))
       IN IF Eligible(r.games) /\ Better(score, best_score)
            THEN BestFrom(per, keys, i + 1,
                          [name |-> champ, games |-> r.games], score)
            ELSE BestFrom(per, keys, i + 1, best_row, best_score)

\* aggregate_best_champ after its loop over the matches: per is the
\* accumulator, keys its champions in the order they were first seen
aggregate_best_champ(per, keys) ==
  IF keys = <<>> THEN NoRow
  ELSE BestFrom(per, keys, 1, NoRow, -Million)

\* aggregate_champ_table after its loop over the matches: the rows in the
\* order of rows.sort(key = the rounded score, reverse = True)
aggregate_champ_table(per, keys) ==
  LET total_games == TotalGames(per, keys)
      Before(i, j) ==
        \/ TableScore(per[keys[i]], total_games) > TableScore(per[keys[j]], total_games)
        \/ /\ TableScore(per[keys[i]], total_games) = TableScore(per[keys[j]], total_games)
           /\ i < j
  IN [n \in 1..Len(keys) |->
        LET j == CHOOSE j \in 1..Len(keys) :
                   Cardinality({i \in 1..Len(keys) : Before(i, j)}) = n - 1
        IN [name |-> keys[j], games |-> per[keys[j]].games,
            wins |-> per[keys[j]].wins]]

\* the matches of the sample so far that the player played
SampleSize == calc.per["A"].games + calc.per["B"].games

InitChamp ==
  /\ IdleProgram
  /\ calc = [op |-> "per", per |-> [c \in Champs |-> NoAcc], keys |-> <<>>,
             skipped |-> FALSE]

\* one pass of the loop over the matches, for a match the player played
\* champ in and won or lost
CountMatch(champ, win) ==
  /\ calc.op = "per"
  /\ SampleSize < MaxGames
  /\ calc' = [calc EXCEPT
                !.per[champ] = [games |-> @.games + 1,
                                wins |-> @.wins + (IF win THEN 1 ELSE 0)],
                !.keys = IF calc.per[champ].games = 0 THEN Append(@, champ) ELSE @]
  /\ UNCHANGED <<clientVars, pageVars, gate>>

\* one pass for a match without the player among its participants
SkipMatch ==
  /\ calc.op = "per"
  /\ calc' = [calc EXCEPT !.skipped = TRUE]
  /\ UNCHANGED <<clientVars, pageVars, gate>>

\* the matches are over: the rest of both functions
Aggregate ==
  /\ calc.op = "per"
  /\ calc' = [op |-> "champs", per |-> calc.per, keys |-> calc.keys,
              skipped |-> calc.skipped,
              best |-> aggregate_best_champ(calc.per, calc.keys),
              table |-> aggregate_champ_table(calc.per, calc.keys)]
  /\ UNCHANGED <<clientVars, pageVars, gate>>

NextChamp ==
  \/ \E champ \in Champs, win \in BOOLEAN : CountMatch(champ, win)
  \/ SkipMatch
  \/ Aggregate

SpecChamp == InitChamp /\ [][NextChamp]_vars

\* ------------------------------------------------------------------------
\* The role the aggregations record for a champion
\* ------------------------------------------------------------------------
ROLE_MAP(teamPosition) ==
  CASE teamPosition = "TOP" -> "top"
    [] teamPosition = "JUNGLE" -> "jungle"
    [] teamPosition = "MIDDLE" -> "mid"
    [] teamPosition = "BOTTOM" -> "adc"
    [] teamPosition = "UTILITY" -> "support"
    [] OTHER -> "unknown"     \* ROLE_MAP.get(..., "unknown")
\* teamPosition of the player in a match; "" when it is missing
Positions == {"TOP", "UTILITY", ""}

\* r["role"] = role or r["role"]
RoleOr(old, role) == IF role # "" THEN role ELSE old

InitRole ==
  /\ IdleProgram
  /\ calc = [op |-> "roles", matches |-> <<>>, role |-> "unknown"]

\* one pass of the loop for a match of the champion, played at a position
CountRole(teamPosition) ==
  /\ calc.op = "roles"
  /\ Len(calc.matches) < MaxRoleMatches
  /\ calc' = [calc EXCEPT !.matches = Append(@, teamPosition),
                          !.role = RoleOr(@, ROLE_MAP(teamPosition))]
  /\ UNCHANGED <<clientVars, pageVars, gate>>

NextRole == \E teamPosition \in Positions : CountRole(teamPosition)

SpecRole == InitRole /\ [][NextRole]_vars

\* ------------------------------------------------------------------------
\* The aggregations called one after another on whole samples
\* ------------------------------------------------------------------------
\* a match of a sample: the player's champion and win, or no participant
\* record of the player
Absent == [champ |-> "none", win |-> FALSE]
Run(champ, win, n) == [i \in 1..n |-> [champ |-> champ, win |-> win]]
AbsentRun(n) == [i \in 1..n |-> Absent]
\* A has no game or 13 won and 7 lost; B has 0, 3 or 12 won and 0 or 3 lost
ScoredSamples ==
  {Run("A", TRUE, a) \o AbsentRun(d) \o Run("B", TRUE, b) \o Run("B", FALSE, e)
     \o Run("A", FALSE, (a * 7) \div 13) :
     a \in {0, 13}, d \in 0..MaxAbsent, b \in {0, 3, 12}, e \in {0, 3}}

\* per = defaultdict(...), with no champion yet
EmptyPer == [per |-> [c \in Champs |-> NoAcc], keys |-> <<>>]
\* left is what an earlier call left in its own per
PerKept(left) == left
FreshPer(left) == EmptyPer

SkippedCounted(acc) == [acc EXCEPT !.per["A"].games = @ + 1]
\* if not you: continue
Skipped(acc) == acc

\* the loop over matches[i..] on the accumulator acc
RECURSIVE LoopOver(_, _, _)
LoopOver(acc, matches, i) ==
  IF i > Len(matches) THEN acc
  ELSE LET m == matches[i]
       IN IF m = Absent
            THEN LoopOver(Skipped(acc), matches, i + 1)
            ELSE LoopOver(
                   [per |-> [acc.per EXCEPT ![m.champ] =
                               [games |-> @.games + 1,
                                wins |-> @.wins + (IF m.win THEN 1 ELSE 0)]],
                    keys |-> IF acc.per[m.champ].games = 0
                               THEN Append(acc.keys, m.champ) ELSE acc.keys],
                   matches, i + 1)

NoOverall == [games |-> 0, wins |-> 0]            \* None
\* aggregate_overall_metrics: its games and wins
aggregate_overall_metrics(matches) ==
  LET you == {i \in 1..Len(matches) : matches[i] # Absent}
      total == [games |-> Cardinality(you),
                wins |-> Cardinality({i \in you : matches[i].win})]
  IN IF matches = <<>> \/ total.games = 0 THEN NoOverall ELSE total

\* what the three aggregations return for a sample, given the accumulator
\* the call starts from
ScoreOf(matches, acc) ==
  [best |-> IF matches = <<>> THEN NoRow
            ELSE aggregate_best_champ(acc.per, acc.keys),
   table |-> IF matches = <<>> THEN <<>>
             ELSE aggregate_champ_table(acc.per, acc.keys),
   overall |-> aggregate_overall_metrics(matches)]

NoScore == [matches |-> <<>>, res |-> ScoreOf(<<>>, EmptyPer)]

InitScore ==
  /\ IdleProgram
  /\ calc = [op |-> "score", left |-> EmptyPer, other |-> FALSE,
             last |-> NoScore, memo |-> NoScore]

\* the aggregations are called on a sample; the caller keeps the result or not
ScoreCall(matches, keep) ==
  /\ calc.op = "score"
  /\ LET acc == LoopOver(FreshPer(calc.left), matches, 1)
         res == ScoreOf(matches, acc)
     IN calc' = [op |-> "score", left |-> acc,
                 \* a call on another sample since the kept one
                 other |-> ~keep /\ (calc.other \/ matches # calc.memo.matches),
                 last |-> [matches |-> matches, res |-> res],
                 memo |-> IF keep THEN [matches |-> matches, res |-> res]
                                  ELSE calc.memo]
  /\ UNCHANGED <<clientVars, pageVars, gate>>

NextScore == \E matches \in ScoredSamples, keep \in BOOLEAN : ScoreCall(matches, keep)

SpecScore == InitScore /\ [][NextScore]_vars

\* ------------------------------------------------------------------------
\* _cached_current_rank: the rank lookups of the year summary
\* ------------------------------------------------------------------------
\* calc.pc is the lookup the coroutine is about to make, calc.sent the HTTP
\* requests sent to the upstream so far, calc.direct those of them sent with
\* an httpx client of the route's own.  No time passes here.
IdleRank == [op |-> "rank", pc |-> "idle", calls |-> 0, sent |-> 0, direct |-> 0]

InitRank ==
  /\ IdleProgram
  /\ calc = IdleRank

\* a request of RiotClient._get: cached, or bucket.acquire() and one request
ViaClient(cached, nextpc) ==
  /\ cached \/ tokens >= One
  /\ tokens' = IF cached THEN tokens ELSE Spend(tokens)
  /\ calc' = [calc EXCEPT !.pc = nextpc,
                          !.sent = IF cached THEN @ ELSE @ + 1]
  /\ UNCHANGED <<now, updated, pc, wake, started, returned, fetchVars,
                 pageVars, gate>>

\* a request of httpx.AsyncClient().get(url, headers=headers)
Direct(nextpc) ==
  /\ calc' = [calc EXCEPT !.pc = nextpc, !.sent = @ + 1, !.direct = @ + 1]
  /\ UNCHANGED <<clientVars, pageVars, gate>>

\* the call, up to the first lookup; a cached rank is returned at once
RankCall(hit) ==
  /\ calc.op = "rank" /\ calc.pc = "idle"
  /\ calc.calls < MaxRankCalls
  /\ calc' = [calc EXCEPT !.calls = @ + 1,
                          !.pc = IF hit THEN "idle" ELSE "probe_ids"]
  /\ UNCHANGED <<clientVars, pageVars, gate>>

\* _summoner_id_from_recent_match: rc.match_ids(region, puuid, count=1) ...
ProbeIds(cached, found) ==
  /\ calc.op = "rank" /\ calc.pc = "probe_ids"
  /\ ViaClient(cached, IF found THEN "probe_match" ELSE "client_summ")

\* ... and rc.match(region, ids[0]), which holds the summonerId or not
ProbeMatch(cached, found) ==
  /\ calc.op = "rank" /\ calc.pc = "probe_match"
  /\ ViaClient(cached, IF found THEN "client_rank" ELSE "client_summ")

\* 1) rc.summoner_by_puuid(plat, puuid)
ClientSummoner(cached, found) ==
  /\ calc.op = "rank" /\ calc.pc = "client_summ"
  /\ ViaClient(cached, IF found THEN "client_rank" ELSE "direct_summ")

\* 2) _direct_summoner_by_puuid(plat, puuid); without an id the call returns
DirectSummoner(found) ==
  /\ calc.op = "rank" /\ calc.pc = "direct_summ"
  /\ Direct(IF found THEN "client_rank" ELSE "idle")

\* 3) rc.ranked_entries_by_puuid(plat, puuid)
ClientEntries(cached, found) ==
  /\ calc.op = "rank" /\ calc.pc = "client_rank"
  /\ ViaClient(cached, IF found THEN "idle" ELSE "direct_rank")

\* the direct fallback for the entries, then the call returns
DirectEntries ==
  /\ calc.op = "rank" /\ calc.pc = "direct_rank"
  /\ Direct("idle")

NextRank ==
  \/ \E hit \in BOOLEAN : RankCall(hit)
  \/ \E cached, found \in BOOLEAN : ProbeIds(cached, found)
  \/ \E cached, found \in BOOLEAN : ProbeMatch(cached, found)
  \/ \E cached, found \in BOOLEAN : ClientSummoner(cached, found)
  \/ \E found \in BOOLEAN : DirectSummoner(found)
  \/ \E cached, found \in BOOLEAN : ClientEntries(cached, found)
  \/ DirectEntries

SpecRank == InitRank /\ [][NextRank]_vars

\* ------------------------------------------------------------------------
\* The typed operations that take a region: rc.match(region, match_id)
\* ------------------------------------------------------------------------
REGIONAL == {"americas", "europe", "asia", "sea"}
\* the regions the operation is called with; "" also stands for None
RegionInputs == {"americas", "AMERICAS", "Sea", "moon", ""}
\* str.lower() on these strings
Lower(s) ==
  CASE s = "AMERICAS" -> "americas"
    [] s = "Sea" -> "sea"
    [] OTHER -> s
RegionError == "ValueError"
NormAny(region) == Lower(region)
\* r = (region or "").lower(); raise ValueError unless r in REGIONAL
_norm_region(region) ==
  IF Lower(region) \in REGIONAL THEN Lower(region) ELSE RegionError

\* each caller's region argument
InitRegion ==
  /\ IdleProgram
  /\ calc \in {[op |-> "typed", region |-> f] : f \in [Callers -> RegionInputs]}

\* rc.match(region, match_id), from the call to its first suspension point,
\* its return or its ValueError
MatchCall(p, k) ==
  /\ calc.op = "typed"
  /\ IF _norm_region(calc.region[p]) = RegionError
       THEN /\ pc[p] = "idle"
            /\ \A q \in Callers : q < p => pc[q] # "idle"
            /\ pc' = [pc EXCEPT ![p] = "done"]
            /\ out' = [out EXCEPT ![p] = ErrOut(RegionError, 0, 0)]
            /\ UNCHANGED <<now, tokens, updated, wake, started, returned,
                           cache_m, locks, futs, req, hist, nresp,
                           pageVars, auxVars>>
       ELSE GetCall(p, k, TtlTicks)

\* the upstream answers with the match or with 404
RegionResponses == {r \in Responses : r.status \in {200, 404} /\ r.body # "bad"}

NextRegion ==
  \/ \E p \in Callers, k \in 1..NumKeys : MatchCall(p, k)
  \/ \E p \in Callers, r \in RegionResponses : Respond(p, r.status, r.header, r.body)
  \/ \E p \in Callers : GetJoined(p)

SpecRegion == InitRegion /\ [][NextRegion]_vars

\* ------------------------------------------------------------------------
\* RiotClient._get: the ways a leader leaves its request loop
\* ------------------------------------------------------------------------
\* the task of a leader is cancelled while it is suspended in acquire(), in
\* self._client.get(...) or in asyncio.sleep(...): CancelledError is raised
\* there and the handler `except BaseException as e` of _get runs
CancelError == "CancelledError"
Suspended(p) == pc[p] \in {"bucket_sleep", "http", "sleep_429", "backoff"}
GetCancel(p) ==
  /\ Suspended(p)
  /\ Raise(p, hist[p], ErrOut(CancelError, 0, nresp + 1))
  /\ UNCHANGED <<now, tokens, updated, started, returned, locks, nresp,
                 pageVars, auxVars>>

\* the callers ask for one resource
NextJoin ==
  \/ \E p \in Callers : GetCall(p, 1, TtlTicks)
  \/ \E p \in Callers : GetPoll(p)
  \/ \E p \in Callers, r \in Responses : Respond(p, r.status, r.header, r.body)
  \/ \E p \in Callers : GetRetry(p)
  \/ \E p \in Callers : GetCancel(p)
  \/ \E p \in Callers : GetJoined(p)
  \/ Tick

\* the event loop resumes a coroutine whose awaited future is done
JoinFairness == \A p \in Callers : WF_vars(GetJoined(p))

SpecJoin == InitFetch /\ [][NextJoin]_vars /\ JoinFairness
\* ------------------------------------------------------------------------
\* The token bucket under a finite burst of calls, with time advancing
\* ------------------------------------------------------------------------
\* the ticks in which the refill alone pays for every call of the burst
Horizon == (MaxBurst * One + RatePerTick - 1) \div RatePerTick

\* the bucket as earlier traffic left it: empty, or with one token
InitDrained ==
  /\ now = 0
  /\ tokens \in {0, One}
  /\ updated = 0
  /\ pc = [p \in Callers |-> "idle"]
  /\ wake = [p \in Callers |-> 0]
  /\ started = 0
  /\ returned = 0
  /\ InitFetchVars
  /\ InitPageVars

\* one of the finitely many acquire() calls
BurstCall(p) ==
  /\ started < MaxBurst
  /\ AcquireCall(p)

\* time.monotonic() advances (as Tick, up to the horizon)
TickOn ==
  /\ now < Horizon
  /\ \A p \in Callers : ~Ready(p)
  /\ now' = now + 1
  /\ UNCHANGED <<tokens, updated, pc, wake, started, returned, fetchVars,
                 pageVars, auxVars>>

NextBurst ==
  \/ \E p \in Callers : BurstCall(p)
  \/ \E p \in Callers : AcquirePoll(p)
  \/ TickOn

\* time keeps advancing, and the event loop resumes a caller whose
\* asyncio.sleep(0.2) has ended
BurstFairness ==
  /\ WF_vars(TickOn)
  /\ \A p \in Callers : WF_vars(AcquirePoll(p))

SpecBurst == InitDrained /\ [][NextBurst]_vars /\ BurstFairness
\* ------------------------------------------------------------------------
\* Claims about the token bucket
\* ------------------------------------------------------------------------
\* C1: in every reachable state of the bucket, under any interleaving of
\* concurrent acquire() calls and any passage of time, 0 <= tokens <= capacity.
C1_TokensInRange == 0 <= tokens /\ tokens <= Capacity * One

\* C1 witness: the bucket was drained to 0, a caller is waiting, and time has
\* passed since (so refills and the cap have both been exercised).
C1_Witness ==
  /\ returned >= Capacity
  /\ now > 0
  /\ tokens > 0
  /\ \E p \in Callers : pc[p] = "bucket_sleep"

\* C2: each token is spent by at most one caller: the calls that have
\* returned never exceed capacity + rate * elapsed time (the tokens still in
\* the bucket counted with them); with no time elapsed every call returned
\* without waiting and took one token, a caller waits only once 20 calls have
\* returned and 0 tokens are left, and a 21st return needs a refill of at
\* least one token.
C2_OneTokenPerReturn ==
  /\ returned * One + tokens <= Capacity * One + RatePerTick * now
  /\ now = 0 => /\ returned <= Capacity
                /\ tokens = (Capacity - returned) * One
                /\ \A p \in Callers :
                     pc[p] = "bucket_sleep" => returned = Capacity /\ tokens = 0
  /\ returned > Capacity => RatePerTick * now >= One

\* C2 witness: 20 calls returned at once, the 21st waited and has returned
\* after the refill.
C2_Witness == returned = Capacity + 1 /\ started >= Capacity + 1

\* ------------------------------------------------------------------------
\* Claims about RiotClient._get
\* ------------------------------------------------------------------------
Called(p) == pc[p] # "idle"
Finished(p) == pc[p] = "done"
Retried5xx == {502, 503, 504}

C4_ExpiredIsRefetched ==
  \A p \in Callers : Finished(p) /\ hist[p].expired => ~hist[p].old

\* C5 (as claimed): a failed fetch caches nothing, the callers that joined
\* while it was in flight re-raise its error, and a request made after the
\* failed request has finished makes a new upstream attempt: it never ends
\* with an error raised before it began.
C5_FailureNotRemembered ==
  /\ \A k \in Keys, f \in 1..Len(futs) :
       cache_m[k].present /\ futs[f].val.kind = "err"
       => cache_m[k].payload # futs[f].val.serial
  /\ \A p \in Callers :
       Finished(p) /\ hist[p].how = "join" /\ ~hist[p].late
       => out[p] = futs[req[p].fut].val
  /\ \A p \in Callers : Finished(p) /\ out[p].kind = "err" => ~hist[p].old

\* C6 (as claimed): a 429 never counts against the attempt cap: a call
\* surfaces a 502/503/504 only once three of its requests (the first and two
\* retries) were answered with 502/503/504, however many 429s came between,
\* and a 429 status is never surfaced.
C6_429NotCounted ==
  \A p \in Callers :
    Finished(p) /\ out[p].err = "HTTPStatusError"
    => /\ out[p].status # 429
       /\ out[p].status \in Retried5xx /\ hist[p].how = "lead"
          => hist[p].n5xx = MaxAttempts

\* C7: when upstream answers a call with 502/503/504 only, the call sends
\* exactly 3 requests, sleeping 0.5 s * attempt number before each retry,
\* then surfaces the failure; it never sends a 4th request.
C7_ThreeAttemptsOn5xx ==
  \A p \in Callers :
    hist[p].recv >= 1 /\ hist[p].n5xx = hist[p].recv
    => /\ hist[p].sent <= MaxAttempts
       /\ ~hist[p].rushed
       /\ pc[p] = "backoff" => wake[p] = hist[p].respAt + BackoffTicks * hist[p].recv
       /\ hist[p].recv < MaxAttempts => pc[p] \in {"backoff", "bucket_sleep", "http"}
       /\ hist[p].recv >= MaxAttempts
          => /\ Finished(p)
             /\ hist[p].sent = MaxAttempts /\ hist[p].recv = MaxAttempts
             /\ out[p].kind = "err" /\ out[p].err = "HTTPStatusError"
             /\ out[p].status = hist[p].last

\* C7 witness: three requests, three 5xx answers, the failure surfaced.
C7_Witness ==
  \E p \in Callers :
    /\ Finished(p) /\ hist[p].sent = 3 /\ hist[p].recv = 3 /\ hist[p].n5xx = 3
    /\ out[p].kind = "err" /\ out[p].status \in Retried5xx

\* C8: a response with a non-2xx status other than 429, 502, 503, 504 makes
\* the call fail at once: the call has ended with that status as its error,
\* it sent no request after that response, and the response is in no cache
\* entry.
C8_OtherStatusFailsAtOnce ==
  \A p \in Callers :
    /\ hist[p].recv >= 1
    /\ hist[p].last \notin Retried5xx \cup {429}
    /\ ~(200 <= hist[p].last /\ hist[p].last < 300)
    => /\ Finished(p)
       /\ out[p].kind = "err" /\ out[p].err = "HTTPStatusError"
       /\ out[p].status = hist[p].last
       /\ hist[p].sent = hist[p].recv
       /\ futs[req[p].fut] = [done |-> TRUE, val |-> out[p]]
       /\ \A k \in Keys : cache_m[k].present => cache_m[k].payload # out[p].serial

\* C8 witness: a call that was retried once and then answered 404 has failed.
C8_Witness ==
  \E p \in Callers :
    /\ Finished(p) /\ hist[p].last = 404 /\ hist[p].recv = 2
    /\ out[p].kind = "err" /\ out[p].status = 404
    /\ \A k \in Keys : ~cache_m[k].present

\* C9: every request sent, each retry included, is preceded by its own token
\* acquisition: a call never has sent more requests than it has taken tokens,
\* and a call answered from the cache or by joining a future has sent no
\* request and taken no token.
C9_TokenPerRequest ==
  \A p \in Callers :
    /\ hist[p].sent <= hist[p].got
    /\ hist[p].how \in {"hit", "join"} => hist[p].sent = 0 /\ hist[p].got = 0
    /\ pc[p] = "http" => hist[p].sent >= 1

\* C9 witness: a call has sent a retry after a 429 and one after a 5xx, each
\* with a token; another call was answered without a request.
C9_Witness ==
  \E p, q \in Callers :
    /\ hist[p].sent = 3 /\ hist[p].got = 3 /\ hist[p].n429 >= 1 /\ hist[p].n5xx >= 1
    /\ Finished(q) /\ hist[q].how \in {"hit", "join"} /\ hist[q].sent = 0

\* ------------------------------------------------------------------------
\* Claims about the deep paginator
\* ------------------------------------------------------------------------
\* the parsable patches of the matches of a processed page that were fetched
PagePatches(e) ==
  {patch_tuple(VersionOf(e.results[i].id)) :
     i \in {j \in 1..Len(e.results) : e.results[j].ok}} \ {<<0, 0>>}
IsOldestOf(t, e) ==
  t \in PagePatches(e) /\ \A u \in PagePatches(e) : TupleLeq(t, u)

\* C10: after processing page N the paginator requests page N+1 if and only
\* if page N's id list was non-empty, fewer than max_batches pages have been
\* requested, and the oldest parsable patch among page N's fetched matches is
\* not strictly below the lower bound; when the oldest patches of pages 1 and
\* 2 are 15.6 and 15.3 and the lower bound is 15.5, the paginator has ended
\* with exactly two pages requested.
C10_NextPageRule ==
  /\ Len(pagelog) <= pg.batches /\ pg.batches <= Len(pagelog) + 1
  /\ \A n \in 1..Len(pagelog) :
       pg.batches > n
       <=> /\ pagelog[n].results # <<>>
           /\ n < MaxBatches
           /\ ~\E t \in PagePatches(pagelog[n]) : TupleLess(t, patch_tuple(pg.lo))
  /\ /\ Len(pagelog) >= 2
     /\ IsOldestOf(<<15, 6>>, pagelog[1])
     /\ IsOldestOf(<<15, 3>>, pagelog[2])
     /\ patch_tuple(pg.lo) = <<15, 5>>
     => pg.batches = 2 /\ pg.pc = "done"

\* C10 witness: the lower bound is 15.5, page 1's oldest patch is 15.6, page
\* 2's is 15.3, and the paginator has returned after two listing requests.
C10_Witness ==
  /\ pg.pc = "done" /\ pg.batches = 2 /\ Len(pagelog) = 2
  /\ patch_tuple(pg.lo) = <<15, 5>>
  /\ IsOldestOf(<<15, 6>>, pagelog[1])
  /\ IsOldestOf(<<15, 3>>, pagelog[2])

\* the matches a processed page fetched, and those of them in the window
\* the paginator was called with
Fetched(e) == {e.results[i].id : i \in {j \in 1..Len(e.results) : e.results[j].ok}}
PatchOf(mid) == patch_tuple(VersionOf(mid))
Lo_t == patch_tuple(pg.lo)
Hi_t == patch_tuple(pg.hi)
InWindow(mid) ==
  IF pg.mode = "split"
    THEN TupleLeq(Lo_t, PatchOf(mid)) /\ TupleLeq(PatchOf(mid), Hi_t)
    ELSE TupleLeq(Lo_t, PatchOf(mid))
Returned == {pg.collected[i] : i \in 1..Len(pg.collected)}

\* C11 (as claimed): the list the paginator returns holds no match id more
\* than once, also when the upstream listing shifts between two page
\* requests.
C11_NoDuplicateIds ==
  pg.pc = "done"
  => \A i, j \in 1..Len(pg.collected) :
       pg.collected[i] = pg.collected[j] => i = j

\* C12: what the paginator has collected is exactly the in-window subset of
\* the matches fetched on the pages it has processed: a match collected by
\* fetch_matches_for_split has lo <= patch <= hi, one collected by
\* fetch_matches_since_patch with a lower bound above (0,0) has patch >= lo,
\* under such a bound no match with an unparsable version is collected, and
\* no fetched in-window match of a processed page is left out.
C12_ExactlyInWindow ==
  /\ pg.mode = "split"
     => \A mid \in Returned :
          TupleLeq(Lo_t, PatchOf(mid)) /\ TupleLeq(PatchOf(mid), Hi_t)
  /\ pg.mode = "since" /\ TupleLess(<<0, 0>>, Lo_t)
     => \A mid \in Returned : TupleLeq(Lo_t, PatchOf(mid))
  /\ pg.mode # "none" /\ TupleLess(<<0, 0>>, Lo_t)
     => \A mid \in Returned : PatchOf(mid) # <<0, 0>>
  /\ Returned =
       UNION {{mid \in Fetched(pagelog[n]) : InWindow(mid)} : n \in 1..Len(pagelog)}

\* C12 witness: fetch_matches_for_split has returned matches, and the pages
\* it visited held a fetched match above the window, one below it and one
\* with an unparsable version.
C12_Witness ==
  /\ pg.pc = "done" /\ pg.mode = "split" /\ pg.collected # <<>>
  /\ LET seen == UNION {Fetched(pagelog[n]) : n \in 1..Len(pagelog)}
     IN /\ \E mid \in seen : TupleLess(Hi_t, PatchOf(mid))
        /\ \E mid \in seen : PatchOf(mid) # <<0, 0>> /\ TupleLess(PatchOf(mid), Lo_t)
        /\ \E mid \in seen : PatchOf(mid) = <<0, 0>>

\* C13: one invocation issues at most max_batches listing requests, and
\* after the last of them it returns what it has collected even if no page
\* fell below the lower bound; when every fetch completes, an invocation
\* that has begun ends (it returns, or the error of a listing is raised).
Terminated == pg.pc \in {"done", "raised"}
C13_BoundedAndTerminates ==
  /\ [](pg.batches <= MaxBatches)
  /\ [](Len(pagelog) = MaxBatches => pg.pc = "done")
  /\ [](pg.pc # "idle" => <>Terminated)

\* C13 witness: max_batches pages were requested, the last one was not empty
\* and not below the lower bound, and the paginator has returned.
C13_Witness ==
  /\ pg.pc = "done" /\ pg.batches = MaxBatches /\ Len(pagelog) = MaxBatches
  /\ pagelog[MaxBatches].results # <<>>
  /\ ~\E t \in PagePatches(pagelog[MaxBatches]) : TupleLess(t, Lo_t)

\* ------------------------------------------------------------------------
\* Claims about one gather of the paginator
\* ------------------------------------------------------------------------
\* the tasks of the page's gather
Tasks == {p \in Callers : Called(p)}

\* C14: when any subset of a page's match-detail fetches fail, the paginator
\* raises no error; once the page is processed it has collected exactly the
\* in-window matches among the fetches that succeeded, and it has requested
\* the next page unless one of those has a parsable patch below the lower
\* bound; a failing fetch resolves its own key's future with its error and no
\* other, and each sibling ends with the outcome of its own response.
C14_FailuresAreSkipped ==
  /\ pg.pc # "raised"
  /\ \A p \in Tasks :
       /\ Finished(p) => futs[req[p].fut] = [done |-> TRUE, val |-> out[p]]
       /\ ~Finished(p) => ~futs[req[p].fut].done
       /\ \A q \in Tasks : q # p => req[q].fut # req[p].fut
       /\ \A q \in Tasks :
            q # p /\ Finished(p) /\ Finished(q) => out[q].serial # out[p].serial
  /\ Len(pagelog) = 1 /\ pagelog[1].results # <<>>
     => LET succeeded == {pagelog[1].results[p].id :
                            p \in {q \in Tasks : out[q].kind = "ok"}}
        IN /\ Tasks = 1..Len(pagelog[1].results)
           /\ \A p \in Tasks : Finished(p)
           /\ Returned = {mid \in succeeded : InWindow(mid)}
           /\ pg.pc = "listing"
              <=> ~\E mid \in succeeded :
                     PatchOf(mid) # <<0, 0>> /\ TupleLess(PatchOf(mid), Lo_t)
           /\ pg.pc \in {"listing", "done"}

\* C14 witness: one fetch of the page failed, a sibling succeeded after it
\* and was collected, and the paginator has requested the next page.
C14_Witness ==
  /\ Len(pagelog) = 1 /\ pg.pc = "listing" /\ pg.collected # <<>>
  /\ \E p, q \in Tasks :
       /\ out[p].kind = "err" /\ out[q].kind = "ok"
       /\ out[p].serial < out[q].serial
       /\ pagelog[1].results[q].id \in Returned

\* ------------------------------------------------------------------------
\* Claims about the concurrency of match-detail calls
\* ------------------------------------------------------------------------
InProgress == Cardinality({i \in 1..Len(gate.task) : gate.task[i] = "running"})

\* C15 (as claimed): at every moment at most 8 match-detail calls of one
\* page or batch are in progress, in the deep paginator as in get_matches.
C15_AtMostEightInProgress == InProgress <= BriefSlots

\* ------------------------------------------------------------------------
\* Claims about the TTL cache
\* ------------------------------------------------------------------------
\* C16: after put(k, v, ttl) at time t, a get(k) at any time before t + ttl
\* returns v and leaves the store unchanged; a get(k) at any time after
\* t + ttl returns absent and removes the entry of k, leaving every other key
\* untouched; a get of a key never put returns absent.  With ttl = 120 this
\* is v at t + 119 and absent at t + 121.
C16_CacheTtl ==
  calc.call.op = "get"
  => LET k == calc.call.k
         put == calc.last[k]
     IN /\ calc.call.others
        /\ ~put.made => calc.call.val = None /\ calc.call.kept
        /\ put.made /\ now < put.at + put.ttl
           => calc.call.val = put.v /\ calc.call.kept
        /\ put.made /\ now > put.at + put.ttl
           => calc.call.val = None /\ ~cache_m[k].present
        /\ put.made /\ put.ttl = 120 /\ now = put.at + 119 => calc.call.val = put.v
        /\ put.made /\ put.ttl = 120 /\ now = put.at + 121 => calc.call.val = None

\* C16 witness: a key put with ttl = 120 was read with its value before the
\* expiry; a get 121 s after the put has returned absent and removed the
\* entry, and the entry of another key is still there.
C16_Witness ==
  /\ calc.call.op = "get" /\ calc.call.val = None /\ ~calc.call.kept
  /\ LET put == calc.last[calc.call.k]
     IN /\ put.made /\ put.ttl = 120 /\ put.read
        /\ now = put.at + 121
        /\ ~cache_m[calc.call.k].present
  /\ \E j \in Keys : j # calc.call.k /\ cache_m[j].present

\* ------------------------------------------------------------------------
\* Claims about patch parsing
\* ------------------------------------------------------------------------
\* the numeric groups of a string: its maximal runs of digits, as pairs of
\* their first and last place
NumericGroups(s) ==
  {ij \in (1..Len(s)) \X (1..Len(s)) :
     /\ ij[1] <= ij[2]
     /\ \A k \in ij[1]..ij[2] : IsDigit(s[k])
     /\ (ij[1] = 1 \/ ~IsDigit(s[ij[1] - 1]))
     /\ (ij[2] = Len(s) \/ ~IsDigit(s[ij[2] + 1]))}
RECURSIVE Pow10(_)
Pow10(n) == IF n = 0 THEN 1 ELSE 10 * Pow10(n - 1)
RECURSIVE GroupValue(_, _, _)
GroupValue(s, i, j) ==
  IF i > j THEN 0 ELSE DigitValue(s[i]) * Pow10(j - i) + GroupValue(s, i + 1, j)
\* the n-th group from the left
NthGroup(s, n) ==
  CHOOSE ij \in NumericGroups(s) :
    Cardinality({g \in NumericGroups(s) : g[1] < ij[1]}) = n - 1

\* C17: patch_tuple returns the first two numeric groups of the string as
\* (major, minor), and (0,0) when there are fewer than two; within_patch_range
\* is true exactly when lo <= v <= hi, major compared first, then minor; a
\* version parsed to (0,0) is in no window whose lower bound is above (0,0);
\* "15.4.512.99" gives (15,4) and "garbage" gives (0,0).
C17_PatchParsing ==
  calc.op = "patch"
  => /\ IF Cardinality(NumericGroups(calc.v)) >= 2
          THEN LET a == NthGroup(calc.v, 1)
                   b == NthGroup(calc.v, 2)
               IN calc.g = <<GroupValue(calc.v, a[1], a[2]),
                             GroupValue(calc.v, b[1], b[2])>>
          ELSE calc.g = <<0, 0>>
     /\ calc.within
        <=> /\ calc.L[1] < calc.g[1] \/ (calc.L[1] = calc.g[1] /\ calc.L[2] <= calc.g[2])
            /\ calc.g[1] < calc.H[1] \/ (calc.g[1] = calc.H[1] /\ calc.g[2] <= calc.H[2])
     /\ calc.g = <<0, 0>> /\ (calc.L[1] > 0 \/ calc.L[2] > 0) => ~calc.within
     /\ calc.v = LongVersion => calc.g = <<15, 4>>
     /\ calc.v = Garbage => calc.g = <<0, 0>>

\* C17 witness: a string with a single number was parsed to (0,0) and found
\* outside a window whose bounds parse; the window is not empty.
C17_Witness ==
  /\ calc.op = "patch"
  /\ Cardinality(NumericGroups(calc.v)) = 1
  /\ calc.g = <<0, 0>> /\ ~calc.within
  /\ calc.L = <<1, 2>> /\ calc.H = <<2, 1>>

\* ------------------------------------------------------------------------
\* Claims about classify_primary_mode
\* ------------------------------------------------------------------------
\* the places of a sample whose queue id is mapped to bucket b
PlacesOf(matches, b) == {i \in 1..Len(matches) : QUEUE_BUCKET(matches[i]) = b}
CountOf(matches, b) == Cardinality(PlacesOf(matches, b))
RECURSIVE SumExp(_)
SumExp(places) ==
  IF places = {} THEN 0
  ELSE LET i == CHOOSE j \in places : TRUE
       IN ExpWeights[i] + SumExp(places \ {i})
\* the recency-weighted vote of bucket b: exp(-i/20) for each of its matches
VoteOf(matches, b) == SumExp(PlacesOf(matches, b))
OverrideCase(matches) ==
  /\ CountOf(matches, "solo") + CountOf(matches, "flex") < 5
  /\ CountOf(matches, "normal") >= 5
\* the bucket the votes alone choose, and clamp01(2 * (top - second) / total)
\* in hundredths
VotedBuckets(matches) ==
  {b \in Buckets : CountOf(matches, b) > 0
                     /\ \A a \in Buckets : VoteOf(matches, a) <= VoteOf(matches, b)}
VotedConfidence(matches, top) ==
  LET others == {VoteOf(matches, a) : a \in Buckets \ {top}}
      second == CHOOSE w \in others : \A x \in others : x <= w
      total == SumExp({i \in 1..Len(matches) : QUEUE_BUCKET(matches[i]) # NoBucket})
      twice == 2 * (VoteOf(matches, top) - second)
      c == IF twice > total THEN total ELSE twice
  IN (200 * c + total) \div (2 * total)

\* C18: with fewer than 5 solo-plus-flex matches and at least 5 normal matches
\* the result is primary "normal" with confidence at least 0.6, whatever the
\* votes; otherwise primary and confidence are those the votes alone give.
C18_OverrideRule ==
  calc.op = "mode"
  => LET m == calc.matches
     IN IF OverrideCase(m)
          THEN calc.res.primary = "normal" /\ calc.res.confidence >= 60
          ELSE \/ calc.res = Unranked
               \/ /\ calc.res.primary \in VotedBuckets(m)
                  /\ calc.res.confidence = VotedConfidence(m, calc.res.primary)

\* C18 witness: four solo games before five normal games; the votes alone
\* choose solo, the result is normal at 0.6.
C18_Witness ==
  /\ calc.op = "mode"
  /\ OverrideCase(calc.matches)
  /\ "normal" \notin VotedBuckets(calc.matches)
  /\ calc.res.primary = "normal"
  /\ calc.res.confidence = 60

\* C19: the result is "unranked" with confidence 0 exactly when no match of
\* the sample has a mapped queueId; otherwise, the override rule aside,
\* primary is a bucket with the largest recency-weighted vote; confidence is
\* within [0,1]; dist[b] is the number of matches mapped to b; the sample
\* [420, 420, 440] gives solo, 0.73, {solo: 2, flex: 1}.
C19_WeightedVote ==
  calc.op = "mode"
  => LET m == calc.matches
         mapped == {b \in Buckets : CountOf(m, b) > 0}
     IN /\ (calc.res.primary = "unranked" /\ calc.res.confidence = 0)
             <=> mapped = {}
        /\ mapped # {} /\ ~OverrideCase(m)
             => /\ calc.res.primary \in mapped
                /\ \A b \in Buckets : VoteOf(m, b) <= VoteOf(m, calc.res.primary)
        /\ calc.res.confidence \in 0..100
        /\ DOMAIN calc.res.dist = mapped
        /\ \A b \in mapped : calc.res.dist[b] = CountOf(m, b)
        /\ m = <<420, 420, 440>>
             => /\ calc.res.primary = "solo"
                /\ calc.res.confidence = 73
                /\ calc.res.dist = [b \in {"solo", "flex"} |->
                                     IF b = "solo" THEN 2 ELSE 1]

\* C19 witness: of two buckets with as many matches each, the one with the
\* more recent matches has the larger vote and is the primary one.
C19_Witness ==
  /\ calc.op = "mode"
  /\ ~OverrideCase(calc.matches)
  /\ \E b \in DOMAIN calc.res.dist \ {calc.res.primary} :
       /\ calc.res.dist[b] = calc.res.dist[calc.res.primary]
       /\ VoteOf(calc.matches, b) < VoteOf(calc.matches, calc.res.primary)
  /\ calc.res.confidence \in 1..99

\* ------------------------------------------------------------------------
\* Claims about the champion aggregations
\* ------------------------------------------------------------------------
Played == {c \in Champs : calc.per[c].games > 0}

\* C20: aggregate_best_champ never returns a champion with fewer than 15
\* games in the sample and returns nothing when no champion has 15;
\* aggregate_champ_table has no floor and lists every champion the player
\* played exactly once; of A with 20 games, 13 won, and B with 3 games, all
\* won, A is the best.
C20_BestChampFloor ==
  calc.op = "champs"
  => /\ calc.best # NoRow
          => /\ calc.best.name \in Played
             /\ calc.best.games = calc.per[calc.best.name].games
             /\ calc.per[calc.best.name].games >= 15
     /\ (\A c \in Champs : calc.per[c].games < 15) => calc.best = NoRow
     /\ \A c \in Played :
          Cardinality({i \in 1..Len(calc.table) : calc.table[i].name = c}) = 1
     /\ \A i \in 1..Len(calc.table) :
          /\ calc.table[i].name \in Played
          /\ calc.table[i].games = calc.per[calc.table[i].name].games
     /\ (/\ calc.per["A"] = [games |-> 20, wins |-> 13]
         /\ calc.per["B"] = [games |-> 3, wins |-> 3])
          => calc.best.name = "A"

\* C20 witness: A with 20 games, 13 won, and B with 3 games, all won, in a
\* sample with a match the player was not in: the table has both, the best
\* champion is A.
C20_Witness ==
  /\ calc.op = "champs"
  /\ calc.skipped
  /\ calc.per["A"] = [games |-> 20, wins |-> 13]
  /\ calc.per["B"] = [games |-> 3, wins |-> 3]
  /\ calc.best = [name |-> "A", games |-> 20]
  /\ Len(calc.table) = 2
  /\ calc.table[2].name = "B"

\* ------------------------------------------------------------------------
\* Claims about the recorded role
\* ------------------------------------------------------------------------
RoleLabels == {ROLE_MAP(p) : p \in Positions}
TimesPlayed(matches, label) ==
  Cardinality({i \in 1..Len(matches) : ROLE_MAP(matches[i]) = label})

\* C21: the role recorded for a champion is a most frequent role label of
\* the champion's matches in the sample, whatever their order; three matches
\* at a top-mapped position and one at an unknown position give top.
C21_MajorityRole ==
  calc.op = "roles" /\ calc.matches # <<>>
  => /\ \A label \in RoleLabels :
          TimesPlayed(calc.matches, label) <= TimesPlayed(calc.matches, calc.role)
     /\ (TimesPlayed(calc.matches, "top") = 3 /\ TimesPlayed(calc.matches, "unknown") = 1
           /\ Len(calc.matches) = 4)
          => calc.role = "top"

\* ------------------------------------------------------------------------
\* Claims about repeated and partial aggregation
\* ------------------------------------------------------------------------
\* C22: the aggregations called again on a sample they were called on before
\* return what they returned then, whatever was called in between.
C22_SameSampleSameResult ==
  calc.op = "score" /\ calc.last.matches = calc.memo.matches
  => calc.last.res = calc.memo.res

\* C22 witness: the sample of 20 games of A and 3 of B was scored, another
\* sample after it, then the same sample again, with A the best both times.
C22_Witness ==
  /\ calc.op = "score"
  /\ calc.other
  /\ calc.last.matches = calc.memo.matches
  /\ calc.last.res.best = [name |-> "A", games |-> 20]
  /\ calc.left.per["B"].games = 3

\* the matches of the last scored sample that contain the player
WithPlayer == {i \in 1..Len(calc.last.matches) : calc.last.matches[i] # Absent}
RECURSIVE TableGames(_)
TableGames(rows) ==
  IF rows = <<>> THEN 0 ELSE Head(rows).games + TableGames(Tail(rows))

\* C23: matches without a participant record of the player are skipped: the
\* games of all champion rows together are the matches that contain the
\* player, and when there is none the best champion and the overall metrics
\* are absent and the table is empty.
C23_AbsentPlayerSkipped ==
  calc.op = "score"
  => /\ TableGames(calc.last.res.table) = Cardinality(WithPlayer)
     /\ calc.last.res.overall.games = Cardinality(WithPlayer)
     /\ WithPlayer = {}
          => /\ calc.last.res.best = NoRow
             /\ calc.last.res.overall = NoOverall
             /\ calc.last.res.table = <<>>

\* C23 witness: a sample of 13 games of A, then a match without the player,
\* then 15 games of B and 7 more of A: 35 games in the table.
C23_Witness ==
  /\ calc.op = "score"
  /\ Len(calc.last.matches) = 36
  /\ Cardinality(WithPlayer) = 35
  /\ TableGames(calc.last.res.table) = 35
  /\ calc.last.res.best # NoRow

\* ------------------------------------------------------------------------
\* Claims about the order of the pages
\* ------------------------------------------------------------------------
\* C24: the listing of page N+1 is requested only in the step in which every
\* detail fetch of page N has completed, with a match or an error, and the
\* stop rule of page N was evaluated and did not stop the loop; page N is
\* then closed.
C24_PagesSequential ==
  [][pg.batches >= 1 /\ pg'.batches = pg.batches + 1
       => /\ pg.pc = "gather" /\ pg.results # <<>>
          /\ \A i \in 1..Len(pg.results) : pg.results[i].done
          /\ ~BelowLowerBound(OldestThisPage(pg.results, NoPatch), patch_tuple(pg.lo))
          /\ Len(pagelog') = pg.batches
          /\ pagelog'[pg.batches].results = pg.results
          /\ pg'.pc = "listing" /\ pg'.results = <<>>]_vars

\* C24 witness: the second listing is out after a first page of which one
\* detail fetch failed and one succeeded.
C24_Witness ==
  /\ pg.pc = "listing" /\ pg.batches = 2 /\ Len(pagelog) = 1
  /\ \E i, j \in 1..Len(pagelog[1].results) :
       /\ pagelog[1].results[i].done /\ ~pagelog[1].results[i].ok
       /\ pagelog[1].results[j].done /\ pagelog[1].results[j].ok

\* ------------------------------------------------------------------------
\* Claims about the requests of the rank lookups
\* ------------------------------------------------------------------------
\* C25: every HTTP request sent to the upstream has taken a token of the one
\* global bucket: with no refill in between, the tokens taken are as many as
\* the requests sent, the summoner and ranked-entry fallbacks included.
C25_EveryRequestTakesToken ==
  calc.op = "rank" => Capacity * One - tokens = calc.sent * One

\* ------------------------------------------------------------------------
\* Claims about the two scorings
\* ------------------------------------------------------------------------
\* the rows of a table with at least the minimum number of games
FloorRows(table) == SelectSeq(table, LAMBDA row : row.games >= MIN_GAMES_FOR_BEST)

\* C26: the champion returned as best is the first row of the table among
\* the champions with at least the minimum number of games.
C26_BestIsTopOfTable ==
  calc.op = "score" /\ calc.last.res.best # NoRow
  => /\ FloorRows(calc.last.res.table) # <<>>
     /\ Head(FloorRows(calc.last.res.table)).name = calc.last.res.best.name

\* the place of a champion in the order of first encounter
PlaceOf(keys, c) == CHOOSE i \in 1..Len(keys) : keys[i] = c

\* C27: aggregate_best_champ returns a champion of maximal score among those
\* it scores, the first encountered of them; rows of the table with equal
\* scores are in the order their champions were first encountered in.
C27_TiesKeepFirstEncounter ==
  calc.op = "champs"
  => LET total == TotalGames(calc.per, calc.keys)
         scored == {c \in Played : calc.per[c].games >= MIN_GAMES_FOR_BEST}
     IN /\ calc.best # NoRow
             => \A c \in scored :
                  \/ BestScore(calc.per[c], total)
                       < BestScore(calc.per[calc.best.name], total)
                  \/ /\ BestScore(calc.per[c], total)
                          = BestScore(calc.per[calc.best.name], total)
                     /\ PlaceOf(calc.keys, calc.best.name) <= PlaceOf(calc.keys, c)
        /\ \A i, j \in 1..Len(calc.table) :
             (i < j /\ TableScore(calc.per[calc.table[i].name], total)
                         = TableScore(calc.per[calc.table[j].name], total))
               => PlaceOf(calc.keys, calc.table[i].name)
                    < PlaceOf(calc.keys, calc.table[j].name)

\* C27 witness: B was met before A, both have 15 games and 9 wins and so
\* the same scores: B is the best champion and the first row.
C27_Witness ==
  /\ calc.op = "champs"
  /\ calc.keys = <<"B", "A">>
  /\ calc.per["A"] = [games |-> 15, wins |-> 9]
  /\ calc.per["B"] = [games |-> 15, wins |-> 9]
  /\ calc.best.name = "B"
  /\ calc.table[1].name = "B" /\ calc.table[2].name = "A"

\* ------------------------------------------------------------------------
\* Claims about the region argument
\* ------------------------------------------------------------------------
\* the step in which caller p makes its call
CallStep(p) == pc[p] = "idle" /\ pc'[p] # "idle"
\* the call fails at once and nothing shared changes
FailsUntouched(p) ==
  /\ pc'[p] = "done" /\ out'[p].kind = "err"
  /\ hist'[p].sent = 0 /\ req'[p].attempts = 0
  /\ UNCHANGED <<tokens, updated, returned, cache_m, locks, futs, nresp>>

\* C28 as stated: a call with a region that is none of americas, europe,
\* asia, sea fails immediately and leaves tokens, requests, cache and
\* in-flight futures as they were.
C28_RegionOutsideSetFails ==
  [][\A p \in Callers :
       CallStep(p) /\ calc.region[p] \notin REGIONAL => FailsUntouched(p)]_vars

\* C28, amended: a call with a region that, in lower case, is none of
\* americas, europe, asia, sea fails immediately and leaves the shared state
\* as it was; it takes no token, sends no request and is not retried.
C28_InvalidRegionFails ==
  [][\A p \in Callers :
       CallStep(p) /\ Lower(calc.region[p]) \notin REGIONAL => FailsUntouched(p)]_vars

\* C28 witness: a call with a region that is no region has failed while the
\* request of an earlier call is in flight, one token taken.
C28_Witness ==
  /\ calc.op = "typed"
  /\ \E p, q \in Callers :
       /\ Lower(calc.region[p]) \notin REGIONAL
       /\ pc[p] = "done" /\ out[p] = ErrOut(RegionError, 0, 0)
       /\ pc[q] = "http" /\ hist[q].sent = 1
  /\ tokens = (Capacity - 1) * One
  /\ Len(futs) = 1

\* ------------------------------------------------------------------------
\* Claims about the callers awaiting an in-flight future
\* ------------------------------------------------------------------------
\* the caller that registered future f has left its request loop
Leads(q, f) == req[q].fut = f /\ req[q].attempts >= 1
LeaderEnded(f) == \E q \in Callers : Leads(q, f) /\ pc[q] = "done"
Waits(p) == pc[p] = "await_fut"

\* C29: whichever way a leader leaves its request loop, the future it
\* registered is resolved with a value or an error, and every caller that
\* awaits the future of a leader that has ended is eventually released.
C29_WaitersReleased ==
  /\ [](\A f \in 1..Len(futs) :
          LeaderEnded(f) => futs[f].done /\ futs[f].val.kind \in {"ok", "err"})
  /\ \A p \in Callers : (Waits(p) /\ LeaderEnded(req[p].fut)) ~> (pc[p] = "done")

\* a caller that joined the future of a cancelled leader has been released
\* with the leader's CancelledError
C29_Witness ==
  \E p \in Callers :
    /\ hist[p].how = "join"
    /\ pc[p] = "done"
    /\ out[p].err = CancelError
    /\ LeaderEnded(req[p].fut)
\* ------------------------------------------------------------------------
\* Claims about the termination of acquire()
\* ------------------------------------------------------------------------
\* C30: with time advancing and finitely many acquire() calls, every call
\* eventually returns: a caller sleeping in acquire() gets its token, and
\* in the end as many calls have returned as were made.
C30_AcquireReturns ==
  /\ \A p \in Callers : (pc[p] = "bucket_sleep") ~> (pc[p] = "idle")
  /\ <>[](returned = started)

\* the whole burst has returned, and a caller of it had to sleep
C30_Witness ==
  /\ started = MaxBurst
  /\ returned = started
  /\ \E p \in Callers : pc[p] = "idle" /\ wake[p] > 0
====
